---- MODULE Spec2Model ----
(***************************************************************************)
(* License-key store and salesperson agent hierarchy of go_creation.       *)
(* The database is the shared state; every HTTP handler runs on a worker   *)
(* and is split at the points where it leaves the database (between a read *)
(* and the write that depends on it), so that concurrent requests          *)
(* interleave the way the fiber handlers do.                               *)
(***************************************************************************)
EXTENDS Integers, FiniteSets, Sequences, TLC

\* ---------------------------------------------------------------- bounds
NumWorkers == 2          \* concurrent requests in flight
NumKeys == 1             \* keys minted before the first request
NumSoftware == 1         \* software rows
NumActivators == 2       \* distinct activator_id values in requests
MaxTime == 1             \* hours the clock may advance in the key store
MaxSalespersons == 3     \* salespersons that may be created
MaxInvitations == 2      \* invitations that may be created
MaxJumps == 1            \* times the clock may pass an invitation lifetime
NumRacers == 2           \* salespersons whose requests race
MaxChainInvitations == 1 \* invitations that may be created below a full chain
NumKeyTypes == 1         \* key types
MaxMints == 2            \* mint requests that reach their transaction
MaxLimit == 2            \* largest key_gen_limit assigned
MaxCascades == 1         \* ProcessAgentCommission calls
MaxRated == 3            \* salespersons whose parent_commission_rate is chosen freely
NumCodes == 2            \* values of the random part of a generated code
MaxFailures == 6         \* failed logins recorded per username
MaxLockWaits == 4        \* five-minute waits of the login limiter clock
MaxLoginWaits == 1       \* lock durations the clock may pass while logins run
MaxBindings == 2         \* rows of software_key_types at which no further bind starts
MaxCodeCalls == 4        \* largest value of the code counter for direct generator calls

\* ------------------------------------------------------------- constants
NULL == 0 - 1            \* nil pointer / SQL NULL of an optional column
MaxAgentLevel == 5
InvitationDays == 7
MaxBatch == 1000         \* largest count BatchCreateKeys accepts
DayStep == 24 * (InvitationDays + 1)

\* Money. A rate is kept as rate * RateOne, a sale amount in hundredths of
\* the currency unit, and a commission as amount * rate, that is in units of
\* 1 / (100 * RateOne); RateOne = 100 * 2^6 keeps a percentage exact under
\* six halvings.
RateOne == 6400
DefaultRate == RateOne \div 10      \* gorm default of parent_commission_rate: 0.1
MinCommission == RateOne            \* 0.01 as a commission
SalespersonPrefix == 100            \* "CODE" / "KEY" in front of salesperson codes

Workers == 1..NumWorkers
KeyIds == 1..NumKeys
SoftwareIds == 1..NumSoftware
ActivatorIds == 1..NumActivators
DeviceInfos == {"dev"}
SalespersonIds == 1..MaxSalespersons
Emails == {"", "a@x.io"}
Phones == {"", "13800000"}

VARIABLES
    now,        \* time.Now(), in hours; in minutes for the login limiter
    keys,       \* table keys: id -> row
    software,   \* table software: id -> row
    req,        \* per worker: the handler it runs, its position and locals
    lastResp,   \* the response most recently sent to a client
    activations,\* per key: the inputs of the ActivateKey requests answered with success
    obj,        \* an in-memory models.Key value held by a caller of the model methods
    salespersons,       \* table salespersons: id -> row
    lastSalespersonId,  \* AUTO_INCREMENT of salespersons
    invitations,        \* table salesperson_agent_invitations: id -> row
    invBudget,          \* invitations that may still be created
    keyTypes,           \* table key_types: id -> row
    bindings,           \* table software_key_types: its rows in insertion order
    products,           \* table salesperson_products: id -> row
    batches,            \* table keys: the rows inserted by the mint requests, per request
    sales,              \* table salesperson_sales: id -> row
    commissions,        \* table salesperson_agent_commissions: id -> row
    mintBudget,         \* mint requests that may still be made
    cascadeBudget,      \* ProcessAgentCommission calls that may still be made
    codeCounter,        \* utils.codeCounter, the counter of the salesperson code generator
    attempts            \* LoginLimiter.attempts: username -> LoginAttemptInfo

agentTables == <<salespersons, lastSalespersonId, invitations, invBudget>>

keyTables == <<keys, software, activations, obj>>

saleTables == <<keyTypes, bindings, products, batches, sales, commissions, mintBudget,
               cascadeBudget>>

\* the state a process keeps in memory
processState == <<codeCounter, attempts>>

vars == <<now, keys, software, req, lastResp, activations, obj,
          salespersons, lastSalespersonId, invitations, invBudget,
          keyTypes, bindings, products, batches, sales, commissions, mintBudget,
          cascadeBudget, codeCounter, attempts>>

Idle == [pc |-> "idle"]

\* models.Key as minted by BatchCreateKeys: code and key_code are unique,
\* hours is copied from the key type, status starts as unused.
NewKey(id, hours, softwareId) ==
    [id |-> id, code |-> id, keyCode |-> id, hours |-> hours,
     softwareId |-> softwareId, status |-> "unused",
     userId |-> NULL, deviceInfo |-> "",
     usedAt |-> NULL, activatedAt |-> NULL, expiredAt |-> NULL]

\* validity of the key type of key id, in hours
KeyTypeHours(id) == id + 1

\* software the key id was minted for
KeySoftware(id) == ((id - 1) % NumSoftware) + 1

\* what a client sees of a request: the handler, the answer and, for
\* ActivateKey and the mint transactions, the request body the answer
\* belongs to
Response(op, input, status, error) ==
    [op |-> op, input |-> input, status |-> status, error |-> error]

Respond(w, r) ==
    /\ req' = [req EXCEPT ![w] = Idle]
    /\ lastResp' = r

\* ------------------------------------------------------------ ActivateKey
\* Where("code = ? AND key_code = ?").First(&key)
FindKeyByCodes(code, keyCode) ==
    {k \in DOMAIN keys : keys[k].code = code /\ keys[k].keyCode = keyCode}

\* the status check letting every status but void through
StatusInvalidVoidOnly(key) == key.status = "void"

\* key.Status != "unused"
StatusInvalid(key) == key.status # "unused"

\* an expiry computed from the current hours of the key's type
ExpiryOfCurrentType(t, key) == t + keyTypes[key.typeId].hours

\* now.Add(time.Duration(key.Hours) * time.Hour)
ExpiryOf(t, key) == t + key.hours

\* the assignments to key before tx.Save
ActivatedKey(key, t, deviceInfo, activatorId) ==
    [key EXCEPT !.status = "used", !.usedAt = t, !.activatedAt = t,
                !.expiredAt = ExpiryOf(t, key),
                !.deviceInfo = deviceInfo, !.userId = activatorId]

\* ActivateRequest, the parsed body
ActivateRequest(code, keyCode, softwareId, deviceInfo, activatorId) ==
    [code |-> code, keyCode |-> keyCode, softwareId |-> softwareId,
     deviceInfo |-> deviceInfo, activatorId |-> activatorId]

\* body checks, key query, status check, software id check
ActivateKeyLookup(w, code, keyCode, softwareId, deviceInfo, activatorId) ==
    /\ req[w].pc = "idle"
    /\ UNCHANGED <<now, keys, software, activations, obj>>
    /\ UNCHANGED processState
    /\ UNCHANGED agentTables
    /\ UNCHANGED saleTables
    /\ LET found == FindKeyByCodes(code, keyCode)
           in == ActivateRequest(code, keyCode, softwareId, deviceInfo, activatorId) IN
       IF softwareId = 0
       THEN Respond(w, Response("ActivateKey", in, 400, "bad_request"))
       ELSE IF found = {}
       THEN Respond(w, Response("ActivateKey", in, 404, "not_found"))
       ELSE LET key == keys[CHOOSE k \in found : TRUE] IN
            IF StatusInvalid(key)
            THEN Respond(w, Response("ActivateKey", in, 400, "invalid_state"))
            ELSE IF key.softwareId # softwareId
            THEN Respond(w, Response("ActivateKey", in, 400, "mismatch"))
            ELSE /\ req' = [req EXCEPT ![w] =
                        [pc |-> "activate_software", key |-> key, in |-> in]]
                 /\ UNCHANGED lastResp

\* software query and its status check
ActivateKeySoftware(w) ==
    /\ req[w].pc = "activate_software"
    /\ UNCHANGED <<now, keys, software, activations, obj>>
    /\ UNCHANGED processState
    /\ UNCHANGED agentTables
    /\ UNCHANGED saleTables
    /\ LET in == req[w].in
           sw == software[in.softwareId] IN
       IF sw.status # "active" \/ ~sw.isActive
       THEN Respond(w, Response("ActivateKey", in, 400, "software_inactive"))
       ELSE /\ req' = [req EXCEPT ![w].pc = "activate_save"]
            /\ UNCHANGED lastResp

\* Begin, the assignments, tx.Save(&key), Commit; Save writes every column
\* of the row from the struct read in ActivateKeyLookup
ActivateKeySave(w, dbOk) ==
    /\ req[w].pc = "activate_save"
    /\ UNCHANGED <<now, software, obj>>
    /\ UNCHANGED processState
    /\ UNCHANGED agentTables
    /\ UNCHANGED saleTables
    /\ LET key == req[w].key
           in == req[w].in IN
       IF ~dbOk
       THEN /\ Respond(w, Response("ActivateKey", in, 500, "db_error"))
            /\ UNCHANGED <<keys, activations>>
       ELSE /\ keys' = [keys EXCEPT ![key.id] =
                    ActivatedKey(key, now, in.deviceInfo, in.activatorId)]
            /\ activations' = [activations EXCEPT ![key.id] = Append(@, in)]
            /\ Respond(w, Response("ActivateKey", in, 200, "ok"))

\* ---------------------------------------------------------------- VoidKey
\* id check, key query, status check
VoidKeyLookup(w, id) ==
    /\ req[w].pc = "idle"
    /\ UNCHANGED <<now, keys, software, activations, obj>>
    /\ UNCHANGED processState
    /\ UNCHANGED agentTables
    /\ UNCHANGED saleTables
    /\ IF id <= 0
       THEN Respond(w, Response("VoidKey", id, 400, "bad_request"))
       ELSE IF id \notin KeyIds
       THEN Respond(w, Response("VoidKey", id, 404, "not_found"))
       ELSE IF keys[id].status = "void"
       THEN Respond(w, Response("VoidKey", id, 400, "invalid_state"))
       ELSE /\ req' = [req EXCEPT ![w] = [pc |-> "void_update", keyId |-> id]]
            /\ UNCHANGED lastResp

\* Model(&key).Update("status", "void"): one column of the row
VoidKeyUpdate(w, dbOk) ==
    /\ req[w].pc = "void_update"
    /\ UNCHANGED <<now, software, activations, obj>>
    /\ UNCHANGED processState
    /\ UNCHANGED agentTables
    /\ UNCHANGED saleTables
    /\ LET id == req[w].keyId IN
       IF ~dbOk
       THEN /\ Respond(w, Response("VoidKey", id, 500, "db_error"))
            /\ UNCHANGED keys
       ELSE /\ keys' = [keys EXCEPT ![id].status = "void"]
            /\ Respond(w, Response("VoidKey", id, 200, "ok"))

\* ------------------------------------------------------ software on / off
ActivateSoftware(id) ==
    /\ id \in SoftwareIds
    /\ software' = [software EXCEPT ![id] = [status |-> "active", isActive |-> TRUE]]
    /\ UNCHANGED <<now, keys, req, lastResp, activations, obj>>
    /\ UNCHANGED processState
    /\ UNCHANGED agentTables
    /\ UNCHANGED saleTables

DeactivateSoftware(id) ==
    /\ id \in SoftwareIds
    /\ software' = [software EXCEPT ![id] = [status |-> "inactive", isActive |-> FALSE]]
    /\ UNCHANGED <<now, keys, req, lastResp, activations, obj>>
    /\ UNCHANGED processState
    /\ UNCHANGED agentTables
    /\ UNCHANGED saleTables

\* ------------------------------------------------- models.Key methods
\* a caller loads a row into a models.Key value
KeyLoad(id) ==
    /\ id \in KeyIds
    /\ obj' = keys[id]
    /\ UNCHANGED <<now, keys, software, req, lastResp, activations>>
    /\ UNCHANGED processState
    /\ UNCHANGED agentTables
    /\ UNCHANGED saleTables

\* func (k *Key) Activate()
KeyActivate ==
    /\ obj' = [obj EXCEPT !.status = "used", !.activatedAt = now, !.usedAt = now]
    /\ UNCHANGED <<now, keys, software, req, lastResp, activations>>
    /\ UNCHANGED processState
    /\ UNCHANGED agentTables
    /\ UNCHANGED saleTables

\* func (k *Key) Disable()
KeyDisable ==
    /\ obj' = [obj EXCEPT !.status = "void"]
    /\ UNCHANGED <<now, keys, software, req, lastResp, activations>>
    /\ UNCHANGED processState
    /\ UNCHANGED agentTables
    /\ UNCHANGED saleTables

\* ------------------------------------------------------------------ clock
Tick ==
    /\ now < MaxTime
    /\ now' = now + 1
    /\ UNCHANGED <<keys, software, req, lastResp, activations, obj>>
    /\ UNCHANGED processState
    /\ UNCHANGED agentTables
    /\ UNCHANGED saleTables


\* ======================================================= agent hierarchy
\* a row of salespersons as CreateSalesperson inserts it
NewSalesperson(id) ==
    [id |-> id, parentId |-> NULL, level |-> 0, childrenCount |-> 0,
     parentCommissionRate |-> DefaultRate, totalSales |-> 0, totalCommission |-> 0]

\* CreateSalesperson: the body is bound onto models.Salesperson; the bodies
\* enumerated carry the account fields only, so parent_id, level and
\* children_count take their column defaults
CreateSalesperson(dbOk) ==
    /\ lastSalespersonId < MaxSalespersons
    /\ IF dbOk
       THEN /\ salespersons' = salespersons @@
                    ((lastSalespersonId + 1) :> NewSalesperson(lastSalespersonId + 1))
            /\ lastSalespersonId' = lastSalespersonId + 1
            /\ lastResp' = Response("CreateSalesperson", NULL, 201, "ok")
       ELSE /\ UNCHANGED <<salespersons, lastSalespersonId>>
            /\ lastResp' = Response("CreateSalesperson", NULL, 500, "db_error")
    /\ UNCHANGED <<now, req, invitations, invBudget>>
    /\ UNCHANGED processState
    /\ UNCHANGED keyTables
    /\ UNCHANGED saleTables

\* DeleteSalesperson: First(&salesperson, id), Delete(&salesperson)
DeleteSalesperson(id, dbOk) ==
    /\ IF id \notin DOMAIN salespersons
       THEN /\ lastResp' = Response("DeleteSalesperson", NULL, 404, "not_found")
            /\ UNCHANGED salespersons
       ELSE IF ~dbOk
       THEN /\ lastResp' = Response("DeleteSalesperson", NULL, 500, "db_error")
            /\ UNCHANGED salespersons
       ELSE /\ salespersons' = [s \in DOMAIN salespersons \ {id} |-> salespersons[s]]
            /\ lastResp' = Response("DeleteSalesperson", NULL, 200, "ok")
    /\ UNCHANGED <<now, req, lastSalespersonId, invitations, invBudget>>
    /\ UNCHANGED processState
    /\ UNCHANGED keyTables
    /\ UNCHANGED saleTables

\* ------------------------------------------------- CreateAgentInvitation
\* Where("status = ?", "pending"), then .Where("email = ?") when an email is
\* given, then .Or("phone = ?") when a phone is given; the conditions are
\* joined without parentheses: status AND email OR phone
MatchesExisting(inv, email, phone) ==
    \/ /\ inv.status = "pending"
       /\ email # "" => inv.email = email
    \/ /\ phone # ""
       /\ inv.phone = phone

\* ExpiredAt: time.Now().AddDate(0, 0, 7)
InvitationExpiry(t) == t + 24 * InvitationDays

NewInvitation(id, inviterId, email, phone, t) ==
    [id |-> id, inviteCode |-> id, inviterId |-> inviterId,
     email |-> email, phone |-> phone, status |-> "pending",
     expiredAt |-> InvitationExpiry(t), inviteeId |-> NULL, acceptedAt |-> NULL]

\* field checks, inviter query, query for an existing invitation
CreateAgentInvitationCheck(w, inviterId, email, phone) ==
    /\ req[w].pc = "idle"
    /\ invBudget > 0
    /\ UNCHANGED <<now, salespersons, lastSalespersonId, invitations>>
    /\ UNCHANGED processState
    /\ UNCHANGED keyTables
    /\ UNCHANGED saleTables
    /\ LET in == [inviterId |-> inviterId, email |-> email, phone |-> phone] IN
       IF email = "" /\ phone = ""
       THEN /\ Respond(w, Response("CreateAgentInvitation", NULL, 400, "bad_request"))
            /\ UNCHANGED invBudget
       ELSE IF inviterId \notin DOMAIN salespersons
       THEN /\ Respond(w, Response("CreateAgentInvitation", NULL, 404, "not_found"))
            /\ UNCHANGED invBudget
       ELSE IF \E c \in DOMAIN invitations : MatchesExisting(invitations[c], email, phone)
       THEN /\ Respond(w, Response("CreateAgentInvitation", NULL, 409, "duplicate"))
            /\ UNCHANGED invBudget
       ELSE /\ req' = [req EXCEPT ![w] = [pc |-> "invite_insert", in |-> in]]
            /\ invBudget' = invBudget - 1
            /\ UNCHANGED lastResp

\* GenerateInviteCode, Create(&invitation)
CreateAgentInvitationInsert(w, dbOk) ==
    /\ req[w].pc = "invite_insert"
    /\ UNCHANGED <<now, salespersons, lastSalespersonId, invBudget>>
    /\ UNCHANGED processState
    /\ UNCHANGED keyTables
    /\ UNCHANGED saleTables
    /\ LET in == req[w].in
           id == Cardinality(DOMAIN invitations) + 1 IN
       IF ~dbOk
       THEN /\ Respond(w, Response("CreateAgentInvitation", NULL, 500, "db_error"))
            /\ UNCHANGED invitations
       ELSE /\ invitations' = invitations @@
                    (id :> NewInvitation(id, in.inviterId, in.email, in.phone, now))
            /\ Respond(w, Response("CreateAgentInvitation", NULL, 201, "ok"))

\* ------------------------------------------------- AcceptAgentInvitation
\* Where("parent_id = ?", childID).Find(&children)
ChildrenOf(id) ==
    {c \in DOMAIN salespersons : salespersons[c].parentId = id}

\* isCircularReference: is potentialParentID childID itself or below it.
\* failedId is the salesperson whose children query ends in an error (NULL
\* if none does); on that error the function answers false for the subtree.
RECURSIVE isCircularReference(_, _, _)
isCircularReference(potentialParentID, childID, failedId) ==
    \/ potentialParentID = childID
    \/ /\ childID # failedId
       /\ \E child \in ChildrenOf(childID) :
             \/ child = potentialParentID
             \/ isCircularReference(potentialParentID, child, failedId)

\* invitation query by code and status pending, expiry check
AcceptAgentInvitationLookup(w, inviteCode, salespersonId, dbOk) ==
    /\ req[w].pc = "idle"
    /\ UNCHANGED <<now, salespersons, lastSalespersonId, invBudget>>
    /\ UNCHANGED processState
    /\ UNCHANGED keyTables
    /\ UNCHANGED saleTables
    /\ LET in == [inviteCode |-> inviteCode, salespersonId |-> salespersonId]
           found == {c \in DOMAIN invitations :
                        /\ invitations[c].inviteCode = inviteCode
                        /\ invitations[c].status = "pending"} IN
       IF found = {}
       THEN /\ Respond(w, Response("AcceptAgentInvitation", NULL, 404, "not_found"))
            /\ UNCHANGED invitations
       ELSE LET invitation == invitations[CHOOSE c \in found : TRUE] IN
            IF now > invitation.expiredAt
            THEN \* Update("status", "expired"), its error is not looked at
                 /\ invitations' = IF dbOk
                        THEN [invitations EXCEPT ![invitation.id].status = "expired"]
                        ELSE invitations
                 /\ Respond(w, Response("AcceptAgentInvitation", NULL, 400, "expired"))
            ELSE /\ req' = [req EXCEPT ![w] =
                        [pc |-> "accept_check", in |-> in, invitation |-> invitation]]
                 /\ UNCHANGED <<invitations, lastResp>>

\* salesperson and inviter queries, level, parent and cycle checks
AcceptAgentInvitationCheck(w, failedId) ==
    /\ req[w].pc = "accept_check"
    /\ UNCHANGED <<now, salespersons, lastSalespersonId, invitations, invBudget>>
    /\ UNCHANGED processState
    /\ UNCHANGED keyTables
    /\ UNCHANGED saleTables
    /\ LET in == req[w].in
           invitation == req[w].invitation IN
       IF in.salespersonId \notin DOMAIN salespersons
       THEN Respond(w, Response("AcceptAgentInvitation", NULL, 404, "not_found"))
       ELSE IF invitation.inviterId \notin DOMAIN salespersons
       THEN Respond(w, Response("AcceptAgentInvitation", NULL, 404, "inviter_not_found"))
       ELSE LET salesperson == salespersons[in.salespersonId]
                inviter == salespersons[invitation.inviterId] IN
            IF inviter.level >= MaxAgentLevel
            THEN Respond(w, Response("AcceptAgentInvitation", NULL, 400, "max_level"))
            ELSE IF salesperson.parentId # NULL
            THEN Respond(w, Response("AcceptAgentInvitation", NULL, 400, "has_parent"))
            ELSE IF isCircularReference(invitation.inviterId, in.salespersonId, failedId)
            THEN Respond(w, Response("AcceptAgentInvitation", NULL, 400, "circular"))
            ELSE IF inviter.level + 1 > MaxAgentLevel
            THEN Respond(w, Response("AcceptAgentInvitation", NULL, 400, "max_level"))
            ELSE /\ req' = [req EXCEPT ![w] =
                        [pc |-> "accept_tx", in |-> in, invitation |-> invitation,
                         salesperson |-> salesperson, inviter |-> inviter]]
                 /\ UNCHANGED lastResp

\* tx.Save writes every column of the row from the struct and inserts the
\* row when the update matched none
Save(table, row) ==
    IF row.id \in DOMAIN table
    THEN [table EXCEPT ![row.id] = row]
    ELSE table @@ (row.id :> row)

\* UpdateColumn("children_count", gorm.Expr("children_count + 1")) Where id
IncrementChildren(table, id) ==
    IF id \in DOMAIN table
    THEN [table EXCEPT ![id].childrenCount = @ + 1]
    ELSE table

\* the transaction: parent link, children count, invitation; the deferred
\* Rollback undoes all of it when a statement or the commit fails
AcceptAgentInvitationTx(w, dbOk) ==
    /\ req[w].pc = "accept_tx"
    /\ UNCHANGED <<now, lastSalespersonId, invBudget>>
    /\ UNCHANGED processState
    /\ UNCHANGED keyTables
    /\ UNCHANGED saleTables
    /\ LET in == req[w].in
           inviter == req[w].inviter
           salesperson == [req[w].salesperson EXCEPT
                               !.parentId = req[w].invitation.inviterId,
                               !.level = inviter.level + 1]
           invitation == [req[w].invitation EXCEPT
                               !.status = "accepted",
                               !.inviteeId = salesperson.id,
                               !.acceptedAt = now] IN
       IF ~dbOk
       THEN /\ Respond(w, Response("AcceptAgentInvitation", NULL, 500, "db_error"))
            /\ UNCHANGED <<salespersons, invitations>>
       ELSE /\ salespersons' = IncrementChildren(Save(salespersons, salesperson), inviter.id)
            /\ invitations' = Save(invitations, invitation)
            /\ Respond(w, Response("AcceptAgentInvitation", NULL, 200, "ok"))

\* the clock passes the lifetime of the invitations created so far
TickDays ==
    /\ now + DayStep <= MaxJumps * DayStep
    /\ now' = now + DayStep
    /\ UNCHANGED <<req, lastResp, salespersons, lastSalespersonId, invitations, invBudget>>
    /\ UNCHANGED processState
    /\ UNCHANGED keyTables
    /\ UNCHANGED saleTables

\* ---------------------------------------------------------- specification
\* nothing to sell yet: no key type, binding or product
NoSales ==
    /\ keyTypes = [t \in {} |-> NULL]
    /\ bindings = <<>>
    /\ products = [p \in {} |-> NULL]
    /\ batches = <<>>
    /\ sales = <<>>
    /\ commissions = <<>>
    /\ mintBudget = 0
    /\ cascadeBudget = 0
    /\ codeCounter = 0
    /\ attempts = <<>>

KeyInit ==
    /\ now = 0
    /\ keys = [k \in KeyIds |-> NewKey(k, KeyTypeHours(k), KeySoftware(k))]
    /\ software = [s \in SoftwareIds |-> [status |-> "active", isActive |-> TRUE]]
    /\ req = [w \in Workers |-> Idle]
    /\ lastResp = Response("none", NULL, 0, "")
    /\ activations = [k \in KeyIds |-> <<>>]
    /\ obj = NewKey(0, 1, 1)
    /\ salespersons = [s \in {} |-> NULL]
    /\ lastSalespersonId = 0
    /\ invitations = [c \in {} |-> NULL]
    /\ invBudget = MaxInvitations
    /\ NoSales

KeyNext ==
    \/ \E w \in Workers, code \in 1..(NumKeys + 1), keyCode \in 1..(NumKeys + 1),
          softwareId \in 0..(NumSoftware + 1),
          deviceInfo \in DeviceInfos, activatorId \in ActivatorIds :
            ActivateKeyLookup(w, code, keyCode, softwareId, deviceInfo, activatorId)
    \/ \E w \in Workers : ActivateKeySoftware(w)
    \/ \E w \in Workers, dbOk \in BOOLEAN : ActivateKeySave(w, dbOk)
    \/ \E w \in Workers, id \in 0..(NumKeys + 1) : VoidKeyLookup(w, id)
    \/ \E w \in Workers, dbOk \in BOOLEAN : VoidKeyUpdate(w, dbOk)
    \/ \E id \in SoftwareIds : ActivateSoftware(id)
    \/ \E id \in SoftwareIds : DeactivateSoftware(id)
    \/ Tick

KeySpec == KeyInit /\ [][KeyNext]_vars

\* the key store together with a caller of the models.Key methods
KeyModelNext ==
    \/ KeyNext
    \/ \E id \in KeyIds : KeyLoad(id)
    \/ KeyActivate
    \/ KeyDisable

KeyModelSpec == KeyInit /\ [][KeyModelNext]_vars

\* the requests for invitations, served by the workers ws
InvitationNext(ws, ids) ==
    \/ \E w \in ws, inviterId \in ids, email \in Emails, phone \in Phones :
            CreateAgentInvitationCheck(w, inviterId, email, phone)
    \/ \E w \in ws, dbOk \in BOOLEAN : CreateAgentInvitationInsert(w, dbOk)
    \/ \E w \in ws, inviteCode \in 1..(Cardinality(DOMAIN invitations) + 1),
          salespersonId \in ids, dbOk \in BOOLEAN :
            AcceptAgentInvitationLookup(w, inviteCode, salespersonId, dbOk)
    \/ \E w \in ws, failedId \in ids \cup {NULL} : AcceptAgentInvitationCheck(w, failedId)
    \/ \E w \in ws, dbOk \in BOOLEAN : AcceptAgentInvitationTx(w, dbOk)

\* the agent hierarchy from an empty salespersons table, one request at a time
AgentNext ==
    \/ \E dbOk \in BOOLEAN : CreateSalesperson(dbOk)
    \/ \E id \in SalespersonIds, dbOk \in BOOLEAN : DeleteSalesperson(id, dbOk)
    \/ InvitationNext({1}, SalespersonIds)
    \/ TickDays

AgentSpec == KeyInit /\ [][AgentNext]_vars

\* concurrent invitation requests of NumRacers salespersons
RaceInit ==
    /\ now = 0
    /\ keys = [k \in KeyIds |-> NewKey(k, KeyTypeHours(k), KeySoftware(k))]
    /\ software = [s \in SoftwareIds |-> [status |-> "active", isActive |-> TRUE]]
    /\ req = [w \in Workers |-> Idle]
    /\ lastResp = Response("none", NULL, 0, "")
    /\ activations = [k \in KeyIds |-> <<>>]
    /\ obj = NewKey(0, 1, 1)
    /\ salespersons = [s \in 1..NumRacers |-> NewSalesperson(s)]
    /\ lastSalespersonId = NumRacers
    /\ invitations = [c \in {} |-> NULL]
    /\ invBudget = MaxInvitations
    /\ NoSales

RaceNext == InvitationNext(Workers, 1..NumRacers)

RaceSpec == RaceInit /\ [][RaceNext]_vars

\* A hierarchy built by accepted invitations: the chain 1 <- 2 <- ... of
\* MaxAgentLevel + 1 salespersons (levels 0 .. MaxAgentLevel) and a second
\* root with one child; each invitation was created and then accepted at time 0.
ChainLength == MaxAgentLevel + 1
ChainRoot == ChainLength + 1
ChainIds == 1..(ChainLength + 2)

ChainParent(id) ==
    IF id = 1 \/ id = ChainRoot THEN NULL ELSE id - 1

ChainSalesperson(id) ==
    [NewSalesperson(id) EXCEPT
        !.parentId = ChainParent(id),
        !.level = IF id >= ChainRoot THEN id - ChainRoot ELSE id - 1,
        !.childrenCount = IF id = ChainLength \/ id = ChainRoot + 1 THEN 0 ELSE 1]

\* invitation c was sent by salesperson c and accepted by c + 1 (the
\* invitation of ChainLength by ChainRoot and its child)
ChainInvitation(c) ==
    [NewInvitation(c, IF c = ChainLength THEN ChainRoot ELSE c, "a@x.io", "", 0)
        EXCEPT !.status = "accepted",
               !.inviteeId = IF c = ChainLength THEN ChainRoot + 1 ELSE c + 1,
               !.acceptedAt = 0]

ChainInit ==
    /\ now = 0
    /\ keys = [k \in KeyIds |-> NewKey(k, KeyTypeHours(k), KeySoftware(k))]
    /\ software = [s \in SoftwareIds |-> [status |-> "active", isActive |-> TRUE]]
    /\ req = [w \in Workers |-> Idle]
    /\ lastResp = Response("none", NULL, 0, "")
    /\ activations = [k \in KeyIds |-> <<>>]
    /\ obj = NewKey(0, 1, 1)
    /\ salespersons = [s \in ChainIds |-> ChainSalesperson(s)]
    /\ lastSalespersonId = ChainLength + 2
    /\ invitations = [c \in 1..ChainLength |-> ChainInvitation(c)]
    /\ invBudget = MaxChainInvitations
    /\ NoSales

ChainNext ==
    \/ InvitationNext(Workers, ChainIds)
    \/ TickDays

ChainSpec == ChainInit /\ [][ChainNext]_vars

\* ====================================================== GenerateAgentCode
\* utils.GenerateAgentCode(): six random characters
AgentCodes == {"AAAAAA", "BBBBBB", "CCCCCC"}

\* the unique index of salespersons.agent_code refuses the update
AgentCodeTaken(id, agentCode) ==
    \E s \in DOMAIN salespersons : s # id /\ salespersons[s].agentCode = agentCode

\* First(&salesperson, id) and the test of salesperson.AgentCode
GenerateAgentCodeRead(w, id) ==
    /\ req[w].pc = "idle"
    /\ UNCHANGED <<now, salespersons, lastSalespersonId, invitations, invBudget>>
    /\ UNCHANGED processState
    /\ UNCHANGED keyTables
    /\ UNCHANGED saleTables
    /\ IF id \notin DOMAIN salespersons
       THEN Respond(w, Response("GenerateAgentCode", [id |-> id, agentCode |-> ""],
                                404, "not_found"))
       ELSE IF salespersons[id].agentCode # ""
       THEN Respond(w, Response("GenerateAgentCode",
                                [id |-> id, agentCode |-> salespersons[id].agentCode],
                                200, "exists"))
       ELSE /\ req' = [req EXCEPT ![w] = [pc |-> "agent_code_update", id |-> id]]
            /\ UNCHANGED lastResp

\* utils.GenerateAgentCode(), Model(&salesperson).Update("agent_code", agentCode)
GenerateAgentCodeUpdate(w, agentCode, dbOk) ==
    /\ req[w].pc = "agent_code_update"
    /\ UNCHANGED <<now, lastSalespersonId, invitations, invBudget>>
    /\ UNCHANGED processState
    /\ UNCHANGED keyTables
    /\ UNCHANGED saleTables
    /\ LET id == req[w].id IN
       IF ~dbOk \/ AgentCodeTaken(id, agentCode)
       THEN /\ Respond(w, Response("GenerateAgentCode", [id |-> id, agentCode |-> ""],
                                   500, "db_error"))
            /\ UNCHANGED salespersons
       ELSE /\ salespersons' = IF id \in DOMAIN salespersons
                               THEN [salespersons EXCEPT ![id].agentCode = agentCode]
                               ELSE salespersons
            /\ Respond(w, Response("GenerateAgentCode", [id |-> id, agentCode |-> agentCode],
                                   200, "ok"))

\* salesperson 1 was created without an agent code, salesperson 2 with one
AgentCodeInit ==
    /\ now = 0
    /\ keys = [k \in KeyIds |-> NewKey(k, KeyTypeHours(k), KeySoftware(k))]
    /\ software = [s \in SoftwareIds |-> [status |-> "active", isActive |-> TRUE]]
    /\ req = [w \in Workers |-> Idle]
    /\ lastResp = Response("none", NULL, 0, "")
    /\ activations = [k \in KeyIds |-> <<>>]
    /\ obj = NewKey(0, 1, 1)
    /\ salespersons = (1 :> (NewSalesperson(1) @@ [agentCode |-> ""]))
                   @@ (2 :> (NewSalesperson(2) @@ [agentCode |-> "BBBBBB"]))
    /\ lastSalespersonId = 2
    /\ invitations = [c \in {} |-> NULL]
    /\ invBudget = MaxInvitations
    /\ NoSales

AgentCodeNext ==
    \/ \E w \in Workers, id \in 1..2 : GenerateAgentCodeRead(w, id)
    \/ \E w \in Workers, agentCode \in AgentCodes, dbOk \in BOOLEAN :
            GenerateAgentCodeUpdate(w, agentCode, dbOk)
    \/ InvitationNext(Workers, 1..2)

AgentCodeSpec == AgentCodeInit /\ [][AgentCodeNext]_vars

\* ================================================================ minting
KeyTypeIds == 1..NumKeyTypes
Counts == (0..MaxLimit) \cup {MaxBatch + 1}    \* count of a mint request body

\* models.KeyType; price in hundredths
NewKeyType(id) ==
    [id |-> id, name |-> "day", status |-> "active", isActive |-> TRUE,
     hours |-> 24 * id, price |-> 500 * id]

\* the columns a body of UpdateKeyType sets
KeyTypeUpdates == {[name |-> "week"], [hours |-> 168], [price |-> 900],
                   [name |-> "week", hours |-> 168, price |-> 900]}

\* UpdateKeyType: First(&keyType, id), Model(&keyType).Updates(updates)
UpdateKeyType(id, updates) ==
    /\ id \in DOMAIN keyTypes
    /\ keyTypes' = [keyTypes EXCEPT ![id] = updates @@ @]
    /\ lastResp' = Response("UpdateKeyType", NULL, 200, "ok")
    /\ UNCHANGED <<now, req, bindings, products, batches, sales, commissions, cascadeBudget, mintBudget>>
    /\ UNCHANGED processState
    /\ UNCHANGED keyTables
    /\ UNCHANGED agentTables

\* models.SalespersonProduct as AssignProductToSalesperson creates it
NewProduct(id, salespersonId, softwareId, keyTypeId, commissionRate, keyGenLimit) ==
    [id |-> id, salespersonId |-> salespersonId, softwareId |-> softwareId,
     keyTypeId |-> keyTypeId, commissionRate |-> commissionRate,
     keyGenLimit |-> keyGenLimit, keysGenerated |-> 0, isActive |-> TRUE]

\* DeactivateKeyType: Updates(is_active = false, status = inactive)
DeactivateKeyType(id) ==
    /\ id \in DOMAIN keyTypes
    /\ keyTypes' = [keyTypes EXCEPT ![id].status = "inactive", ![id].isActive = FALSE]
    /\ UNCHANGED <<now, req, lastResp, bindings, products, batches, sales, commissions, cascadeBudget, mintBudget>>
    /\ UNCHANGED processState
    /\ UNCHANGED keyTables
    /\ UNCHANGED agentTables

\* a row of software_key_types as BindKeyType creates it
NewBinding(softwareId, keyTypeId, creatorId) ==
    [softwareId |-> softwareId, keyTypeId |-> keyTypeId, isActive |-> TRUE,
     creatorId |-> creatorId]

\* every key type bound once to every software
AllBindings ==
    [i \in 1..(NumSoftware * NumKeyTypes) |->
        NewBinding(((i - 1) \div NumKeyTypes) + 1, ((i - 1) % NumKeyTypes) + 1, 0)]

\* Where("software_id = ? AND key_type_id = ?").First finds a row
Bound(softwareId, keyTypeId) ==
    \E i \in DOMAIN bindings :
        bindings[i].softwareId = softwareId /\ bindings[i].keyTypeId = keyTypeId

\* BindKeyType up to the query for an existing binding; whenever that query
\* returns an error, not found or any other, the handler goes on to create
BindKeyTypeCheck(w, softwareId, keyTypeId, creatorId, readOk) ==
    /\ req[w].pc = "idle"
    /\ Len(bindings) < MaxBindings
    /\ UNCHANGED <<now>>
    /\ UNCHANGED processState
    /\ UNCHANGED keyTables
    /\ UNCHANGED agentTables
    /\ UNCHANGED saleTables
    /\ LET in == [softwareId |-> softwareId, keyTypeId |-> keyTypeId,
                  creatorId |-> creatorId] IN
       IF softwareId \notin DOMAIN software
       THEN Respond(w, Response("BindKeyType", in, 400, "no_software"))
       ELSE IF keyTypeId \notin DOMAIN keyTypes
       THEN Respond(w, Response("BindKeyType", in, 400, "no_key_type"))
       ELSE IF readOk /\ Bound(softwareId, keyTypeId)
       THEN Respond(w, Response("BindKeyType", in, 400, "already_bound"))
       ELSE /\ req' = [req EXCEPT ![w] = [pc |-> "bind_create", in |-> in]]
            /\ UNCHANGED lastResp

\* Create(&binding)
BindKeyTypeCreate(w, dbOk) ==
    /\ req[w].pc = "bind_create"
    /\ UNCHANGED <<now, keyTypes, products, batches, sales, commissions, cascadeBudget, mintBudget>>
    /\ UNCHANGED processState
    /\ UNCHANGED keyTables
    /\ UNCHANGED agentTables
    /\ IF ~dbOk
       THEN /\ Respond(w, Response("BindKeyType", req[w].in, 500, "db_error"))
            /\ UNCHANGED bindings
       ELSE /\ bindings' = Append(bindings, NewBinding(req[w].in.softwareId,
                                                       req[w].in.keyTypeId,
                                                       req[w].in.creatorId))
            /\ Respond(w, Response("BindKeyType", req[w].in, 200, "ok"))

\* UnbindKeyType: Where(software_id, key_type_id).Delete removes every row
\* of the pair; no row affected answers 404
UnbindKeyType(softwareId, keyTypeId) ==
    /\ LET Others(row) == ~(row.softwareId = softwareId /\ row.keyTypeId = keyTypeId)
           in == [softwareId |-> softwareId, keyTypeId |-> keyTypeId] IN
       /\ bindings' = SelectSeq(bindings, Others)
       /\ lastResp' = IF Bound(softwareId, keyTypeId)
                      THEN Response("UnbindKeyType", in, 200, "ok")
                      ELSE Response("UnbindKeyType", in, 404, "not_found")
    /\ UNCHANGED <<now, req, keyTypes, products, batches, sales, commissions, cascadeBudget, mintBudget>>
    /\ UNCHANGED processState
    /\ UNCHANGED keyTables
    /\ UNCHANGED agentTables

\* Where(salesperson_id, software_id, key_type_id).First
FindProduct(salespersonId, softwareId, keyTypeId, activeOnly) ==
    {p \in DOMAIN products :
        /\ products[p].salespersonId = salespersonId
        /\ products[p].softwareId = softwareId
        /\ products[p].keyTypeId = keyTypeId
        /\ activeOnly => products[p].isActive}

\* AssignProductToSalesperson with a body that carries key_gen_limit and no
\* commission_rate: an existing assignment gets is_active = true and, when
\* the limit is positive, key_gen_limit; otherwise a row is created
AssignProductToSalesperson(salespersonId, softwareId, keyTypeId, keyGenLimit) ==
    /\ salespersonId \in DOMAIN salespersons
    /\ softwareId \in SoftwareIds
    /\ keyTypeId \in DOMAIN keyTypes
    /\ Bound(softwareId, keyTypeId)
    /\ LET found == FindProduct(salespersonId, softwareId, keyTypeId, FALSE) IN
       IF found # {}
       THEN LET p == CHOOSE p \in found : TRUE IN
            products' = [products EXCEPT
                            ![p].isActive = TRUE,
                            ![p].keyGenLimit = IF keyGenLimit > 0 THEN keyGenLimit ELSE @]
       ELSE LET id == Cardinality(DOMAIN products) + 1 IN
            products' = products @@
                (id :> NewProduct(id, salespersonId, softwareId, keyTypeId, 0, keyGenLimit))
    /\ lastResp' = Response("AssignProductToSalesperson", NULL, 200, "ok")
    /\ UNCHANGED <<now, req, keyTypes, bindings, batches, sales, commissions, cascadeBudget, mintBudget>>
    /\ UNCHANGED processState
    /\ UNCHANGED keyTables
    /\ UNCHANGED agentTables

\* the KeyGenLimit test of both mint handlers
OverLimit(product, count) ==
    product.keyGenLimit > 0 /\ product.keysGenerated + count > product.keyGenLimit

\* the number of this mint request, for the rows it inserts
RequestNumber == MaxMints - mintBudget + 1

\* a rollback that leaves the rows written so far in place
RollbackKeepsWrites(before, written) == written

\* tx.Rollback(): the table as it was at Begin
Rollback(before, written) == before

\* models.Key as both mint handlers build it: the key type's name, hours
\* and price are copied into the row; GenerateKeysForSalesperson leaves
\* salesperson_id and creator_type at their zero values
MintedKey(id, codes, keyType, softwareId, creatorType, salespersonId) ==
    [NewKey(id, keyType.hours, softwareId) EXCEPT !.code = codes[1], !.keyCode = codes[2]]
    @@ [typeId |-> keyType.id, typeName |-> keyType.name, price |-> keyType.price,
        creatorType |-> creatorType, salespersonId |-> salespersonId]

\* the rows a mint request adds to table, one per pair of codes
WithMinted(table, codes, keyType, softwareId, creatorType, salespersonId) ==
    LET n == Cardinality(DOMAIN table) IN
    table @@ [id \in (n + 1)..(n + Len(codes)) |->
                 MintedKey(id, codes[id - n], keyType, softwareId, creatorType, salespersonId)]

\* a table without unique indexes: no insert is refused
DuplicateAllowed(table, codes) == FALSE

\* the unique indexes of keys.code and keys.key_code refuse the insert
Duplicate(table, codes) ==
    \/ \E i \in DOMAIN codes, k \in DOMAIN table :
           codes[i][1] = table[k].code \/ codes[i][2] = table[k].keyCode
    \/ \E i, j \in DOMAIN codes :
           i # j /\ (codes[i][1] = codes[j][1] \/ codes[i][2] = codes[j][2])

\* the first pair of codes that the unique indexes refuse (0 if none)
FirstDuplicate(table, codes) ==
    LET refused == {i \in DOMAIN codes : Duplicate(table, SubSeq(codes, 1, i))} IN
    IF refused = {} THEN 0 ELSE CHOOSE i \in refused : \A j \in refused : i <= j

\* atomic.AddInt64(&codeCounter, 1): the value the caller obtains
NextCounter(c) == c + 1

\* the counter after n calls of the generator
RECURSIVE Advance(_, _)
Advance(c, n) == IF n = 0 THEN c ELSE Advance(NextCounter(c), n - 1)

\* codes that no row of the table holds
FreshCodes(table, count) ==
    LET n == Cardinality(DOMAIN table) IN [i \in 1..count |-> <<n + i, n + i>>]

\* the rows of keys one mint request inserted
Batch(request, handler, salespersonId, softwareId, keyTypeId, count) ==
    [request |-> request, handler |-> handler, salespersonId |-> salespersonId,
     softwareId |-> softwareId, keyTypeId |-> keyTypeId, count |-> count]

\* models.SalespersonSale of a mint request
NewSale(id, request, salespersonId, saleAmount, commissionRate) ==
    [id |-> id, request |-> request, salespersonId |-> salespersonId,
     saleAmount |-> saleAmount, commissionRate |-> commissionRate,
     commission |-> saleAmount * commissionRate, status |-> "pending"]

\* UpdateColumn("keys_generated", gorm.Expr("keys_generated + ?", count)) Where id
AddKeysGenerated(table, id, count) ==
    IF id \in DOMAIN table
    THEN [table EXCEPT ![id].keysGenerated = @ + count]
    ELSE table

\* total_sales + ?, total_commission + ? Where id
AddTotals(table, id, saleAmount, commission) ==
    IF id \in DOMAIN table
    THEN [table EXCEPT ![id].totalSales = @ + saleAmount,
                       ![id].totalCommission = @ + commission]
    ELSE table

\* the statement of a mint transaction that ends in an error
MintFailures == {"none", "first_key", "last_key", "counter", "sale", "totals", "commit"}

\* position of the failing statement in the transaction
Stage(fail) ==
    CASE fail \in {"first_key", "last_key"} -> 1
      [] fail = "counter" -> 2
      [] fail = "sale" -> 3
      [] fail = "totals" -> 4
      [] fail = "commit" -> 5
      [] OTHER -> 6

\* ------------------------------------------- GenerateKeysForSalesperson
\* body validation and the reads before the transaction: salesperson,
\* software, key type, binding, active assignment, KeyGenLimit
GenerateKeysCheck(w, salespersonId, softwareId, keyTypeId, count) ==
    /\ req[w].pc = "idle"
    /\ mintBudget > 0
    /\ UNCHANGED <<now, keyTypes, bindings, products, batches, sales, commissions, cascadeBudget>>
    /\ UNCHANGED processState
    /\ UNCHANGED keyTables
    /\ UNCHANGED agentTables
    /\ LET in == [salespersonId |-> salespersonId, softwareId |-> softwareId,
                  keyTypeId |-> keyTypeId, count |-> count]
           found == FindProduct(salespersonId, softwareId, keyTypeId, TRUE)
           Refuse(status, error) ==
               /\ Respond(w, Response("GenerateKeysForSalesperson", NULL, status, error))
               /\ UNCHANGED mintBudget IN
       IF softwareId = 0 \/ keyTypeId = 0 \/ count <= 0
       THEN Refuse(400, "required")
       ELSE IF salespersonId \notin DOMAIN salespersons
       THEN Refuse(404, "salesperson_not_found")
       ELSE IF softwareId \notin DOMAIN software
       THEN Refuse(404, "software_not_found")
       ELSE IF keyTypeId \notin DOMAIN keyTypes
       THEN Refuse(404, "key_type_not_found")
       ELSE IF ~Bound(softwareId, keyTypeId)
       THEN Refuse(400, "not_bound")
       ELSE IF found = {}
       THEN Refuse(403, "not_assigned")
       ELSE LET product == products[CHOOSE p \in found : TRUE] IN
            IF OverLimit(product, count)
            THEN Refuse(403, "over_limit")
            ELSE /\ req' = [req EXCEPT ![w] =
                        [pc |-> "generate_tx", in |-> in, request |-> RequestNumber,
                         keyType |-> keyTypes[keyTypeId], product |-> product]]
                 /\ mintBudget' = mintBudget - 1
                 /\ UNCHANGED lastResp

\* the transaction: one Create per key with the codes the generator
\* returned, keys_generated, the sale, the seller's totals, Commit; every
\* error path rolls back
GenerateKeysTx(w, fail, codes) ==
    /\ req[w].pc = "generate_tx"
    /\ Len(codes) = req[w].in.count
    /\ UNCHANGED <<now, keyTypes, bindings, commissions, cascadeBudget, mintBudget>>
    /\ UNCHANGED <<lastSalespersonId, invitations, invBudget>>
    /\ UNCHANGED <<software, obj, attempts>>
    /\ LET in == req[w].in
           product == req[w].product
           saleAmount == in.count * req[w].keyType.price
           sale == NewSale(Len(sales) + 1, req[w].request, in.salespersonId,
                           saleAmount, product.commissionRate)
           created == CASE fail = "first_key" -> 0
                        [] fail = "last_key" -> in.count - 1
                        [] OTHER -> in.count
           duplicate == Duplicate(keys, codes)
           attempted == IF fail = "first_key" THEN 1
                        ELSE IF duplicate THEN FirstDuplicate(keys, codes)
                        ELSE in.count
           keysW == WithMinted(keys, SubSeq(codes, 1, created), req[w].keyType,
                               in.softwareId, "", 0)
           batchesW == IF created > 0
                       THEN Append(batches, Batch(req[w].request, "generate", in.salespersonId,
                                                  in.softwareId, in.keyTypeId, created))
                       ELSE batches
           productsW == IF Stage(fail) > 2
                        THEN AddKeysGenerated(products, product.id, in.count)
                        ELSE products
           salesW == IF Stage(fail) > 3 THEN Append(sales, sale) ELSE sales
           salespersonsW == IF Stage(fail) > 4
                            THEN AddTotals(salespersons, in.salespersonId,
                                           saleAmount, sale.commission)
                            ELSE salespersons IN
       /\ codeCounter' = Advance(codeCounter, 2 * attempted)
       /\ IF fail # "none" \/ duplicate
          THEN /\ keys' = Rollback(keys, keysW)
               /\ batches' = Rollback(batches, batchesW)
               /\ products' = Rollback(products, productsW)
               /\ sales' = Rollback(sales, salesW)
               /\ salespersons' = Rollback(salespersons, salespersonsW)
               /\ UNCHANGED activations
               /\ Respond(w, Response("GenerateKeysForSalesperson", in, 500,
                                      IF fail # "none" THEN fail ELSE "duplicate"))
          ELSE /\ keys' = keysW
               /\ activations' = [k \in DOMAIN keysW |->
                                     IF k \in DOMAIN activations THEN activations[k] ELSE <<>>]
               /\ batches' = batchesW
               /\ products' = productsW
               /\ sales' = salesW
               /\ salespersons' = salespersonsW
               /\ Respond(w, Response("GenerateKeysForSalesperson", in, 201, "ok"))

\* ------------------------------------------------------ BatchCreateKeys
\* body validation and the reads before the transaction: count, creator
\* type, key type and software with their status, binding and, for a
\* salesperson, the active assignment and its KeyGenLimit. caller is the
\* identity the middleware put into Locals; the handler reads only the body
BatchCreateKeysCheck(w, caller, creatorType, salespersonId, typeId, softwareId, count) ==
    /\ req[w].pc = "idle"
    /\ mintBudget > 0
    /\ UNCHANGED <<now, keyTypes, bindings, products, batches, sales, commissions, cascadeBudget>>
    /\ UNCHANGED processState
    /\ UNCHANGED keyTables
    /\ UNCHANGED agentTables
    /\ LET in == [creatorType |-> creatorType, salespersonId |-> salespersonId,
                  softwareId |-> softwareId, keyTypeId |-> typeId, count |-> count]
           found == FindProduct(salespersonId, softwareId, typeId, TRUE)
           Refuse(status, error) ==
               /\ Respond(w, Response("BatchCreateKeys", NULL, status, error))
               /\ UNCHANGED mintBudget
           Proceed ==
               /\ req' = [req EXCEPT ![w] =
                      [pc |-> "batch_tx", in |-> in, request |-> RequestNumber,
                       keyType |-> keyTypes[typeId], caller |-> caller]]
               /\ mintBudget' = mintBudget - 1
               /\ UNCHANGED lastResp IN
       IF count <= 0 \/ count > MaxBatch
       THEN Refuse(400, "count")
       ELSE IF creatorType = "salesperson" /\ salespersonId = 0
       THEN Refuse(400, "salesperson_required")
       ELSE IF typeId \notin DOMAIN keyTypes
       THEN Refuse(400, "key_type_invalid")
       ELSE IF keyTypes[typeId].status # "active" \/ ~keyTypes[typeId].isActive
       THEN Refuse(400, "key_type_inactive")
       ELSE IF softwareId \notin DOMAIN software
       THEN Refuse(400, "software_invalid")
       ELSE IF software[softwareId].status # "active" \/ ~software[softwareId].isActive
       THEN Refuse(400, "software_inactive")
       ELSE IF ~Bound(softwareId, typeId)
       THEN Refuse(400, "not_bound")
       ELSE IF creatorType # "salesperson"
       THEN Proceed
       ELSE IF found = {}
       THEN Refuse(403, "not_assigned")
       ELSE IF OverLimit(products[CHOOSE p \in found : TRUE], count)
       THEN Refuse(403, "over_limit")
       ELSE Proceed

\* the transaction: one Create of all keys, then for a salesperson the
\* assignment is read again and, only if that read succeeds, keys_generated,
\* the sale and the seller's totals are written; Commit
BatchCreateKeysTx(w, fail, readOk, codes) ==
    /\ req[w].pc = "batch_tx"
    /\ Len(codes) = req[w].in.count
    /\ UNCHANGED <<now, keyTypes, bindings, commissions, cascadeBudget, mintBudget>>
    /\ UNCHANGED processState
    /\ UNCHANGED <<lastSalespersonId, invitations, invBudget>>
    /\ UNCHANGED <<software, obj>>
    /\ LET in == req[w].in
           found == FindProduct(in.salespersonId, in.softwareId, in.keyTypeId, FALSE)
           selling == in.creatorType = "salesperson" /\ readOk /\ found # {}
           product == products[CHOOSE p \in found : TRUE]
           saleAmount == in.count * req[w].keyType.price
           sale == NewSale(Len(sales) + 1, req[w].request, in.salespersonId,
                           saleAmount, product.commissionRate)
           duplicate == Duplicate(keys, codes)
           failed == \/ fail \in {"first_key", "last_key", "commit"}
                     \/ fail \in {"counter", "sale", "totals"} /\ selling
                     \/ duplicate
           keysW == IF Stage(fail) > 1 /\ ~duplicate
                    THEN WithMinted(keys, codes, req[w].keyType, in.softwareId,
                                    in.creatorType, in.salespersonId)
                    ELSE keys
           batchesW == IF Stage(fail) > 1
                       THEN Append(batches, Batch(req[w].request, "batch", in.salespersonId,
                                                  in.softwareId, in.keyTypeId, in.count))
                       ELSE batches
           productsW == IF selling /\ Stage(fail) > 2
                        THEN AddKeysGenerated(products, product.id, in.count)
                        ELSE products
           salesW == IF selling /\ Stage(fail) > 3 THEN Append(sales, sale) ELSE sales
           salespersonsW == IF selling /\ Stage(fail) > 4
                            THEN AddTotals(salespersons, in.salespersonId,
                                           saleAmount, sale.commission)
                            ELSE salespersons IN
       IF failed
       THEN /\ keys' = Rollback(keys, keysW)
            /\ batches' = Rollback(batches, batchesW)
            /\ products' = Rollback(products, productsW)
            /\ sales' = Rollback(sales, salesW)
            /\ salespersons' = Rollback(salespersons, salespersonsW)
            /\ UNCHANGED activations
            /\ Respond(w, Response("BatchCreateKeys", in, 500,
                                   IF duplicate THEN "duplicate" ELSE fail))
       ELSE /\ keys' = keysW
            /\ activations' = [k \in DOMAIN keysW |->
                                  IF k \in DOMAIN activations THEN activations[k] ELSE <<>>]
            /\ batches' = batchesW
            /\ products' = productsW
            /\ sales' = salesW
            /\ salespersons' = salespersonsW
            /\ Respond(w, Response("BatchCreateKeys", in, 200, "ok"))

\* ------------------------------------------------ minting specification
\* salesperson MintSeller sells key type 1 of software 1 under its parent
MintParent == 1
MintSeller == 2

MintInit ==
    /\ now = 0
    /\ keys = [k \in KeyIds |-> NewKey(k, KeyTypeHours(k), KeySoftware(k))]
    /\ software = [s \in SoftwareIds |-> [status |-> "active", isActive |-> TRUE]]
    /\ req = [w \in Workers |-> Idle]
    /\ lastResp = Response("none", NULL, 0, "")
    /\ activations = [k \in KeyIds |-> <<>>]
    /\ obj = NewKey(0, 1, 1)
    /\ salespersons = (MintParent :> [NewSalesperson(MintParent) EXCEPT !.childrenCount = 1])
                   @@ (MintSeller :> [NewSalesperson(MintSeller) EXCEPT
                                         !.parentId = MintParent, !.level = 1])
    /\ lastSalespersonId = MintSeller
    /\ invitations = (1 :> [NewInvitation(1, MintParent, "a@x.io", "", 0) EXCEPT
                               !.status = "accepted", !.inviteeId = MintSeller,
                               !.acceptedAt = 0])
    /\ invBudget = 0
    /\ keyTypes = [t \in KeyTypeIds |-> NewKeyType(t)]
    /\ bindings = AllBindings
    /\ products = (1 :> NewProduct(1, MintSeller, 1, 1, RateOne \div 5, MaxLimit))
    /\ batches = <<>>
    /\ sales = <<>>
    /\ commissions = <<>>
    /\ mintBudget = MaxMints
    /\ cascadeBudget = 0
    /\ codeCounter = 0
    /\ attempts = <<>>

MintNext ==
    \/ \E w \in Workers, count \in Counts :
            GenerateKeysCheck(w, MintSeller, 1, 1, count)
    \/ \E w \in Workers, fail \in MintFailures :
            GenerateKeysTx(w, fail, FreshCodes(keys, req[w].in.count))
    \/ \E w \in Workers, creatorType \in {"admin", "salesperson"}, count \in Counts :
            BatchCreateKeysCheck(w, MintSeller, creatorType, MintSeller, 1, 1, count)
    \/ \E w \in Workers, fail \in MintFailures, readOk \in BOOLEAN :
            BatchCreateKeysTx(w, fail, readOk, FreshCodes(keys, req[w].in.count))
    \/ \E keyGenLimit \in 1..MaxLimit :
            AssignProductToSalesperson(MintSeller, 1, 1, keyGenLimit)
    \/ DeactivateKeyType(1)
    \/ DeactivateSoftware(1)
    \/ UnbindKeyType(1, 1)
    \/ \E dbOk \in BOOLEAN : DeleteSalesperson(MintSeller, dbOk)

MintSpec == MintInit /\ [][MintNext]_vars

\* ===================================================== commission cascade
\* rate / math.Pow(2, levelDiff); levelDiff is negative when the stored
\* levels put the upline at or below the downline
HalveRate(rate, levelDiff) ==
    IF levelDiff >= 0 THEN rate \div (2 ^ levelDiff) ELSE rate * (2 ^ (0 - levelDiff))

\* every upline paid half its rate
CommissionRateOfHalved(parent, currentLevel) == HalveRate(parent.parentCommissionRate, 1)

\* the rate applied for parent seen from a downline at currentLevel
CommissionRateOf(parent, currentLevel) ==
    IF currentLevel - 1 = parent.level
    THEN parent.parentCommissionRate
    ELSE HalveRate(parent.parentCommissionRate, currentLevel - parent.level - 1)

\* models.SalespersonAgentCommission as ProcessAgentCommission creates it
NewCommission(sale, salespersonId, parent, commissionRate) ==
    [saleId |-> sale.id, salespersonId |-> salespersonId, agentId |-> parent.id,
     agentLevel |-> parent.level, originalAmount |-> sale.saleAmount,
     commissionRate |-> commissionRate,
     commissionAmount |-> sale.saleAmount * commissionRate, status |-> "pending"]

\* the loop of ProcessAgentCommission from one upline on: the rows it
\* creates, in order, and whether it ended in an error
\* a loop condition that lets the walk take one hop more than MaxAgentLevel
WalkContinuesOneMore(currentParentId, processedLevels) ==
    currentParentId # NULL /\ processedLevels <= MaxAgentLevel

\* for currentParentID != nil && processedLevels < maxLevels
WalkContinues(currentParentId, processedLevels) ==
    currentParentId # NULL /\ processedLevels < MaxAgentLevel

RECURSIVE CascadeRows(_, _, _, _, _)
CascadeRows(sale, currentSalespersonId, currentParentId, currentLevel, processedLevels) ==
    IF ~WalkContinues(currentParentId, processedLevels)
    THEN [rows |-> <<>>, err |-> FALSE]
    ELSE IF currentParentId \notin DOMAIN salespersons
    THEN [rows |-> <<>>, err |-> TRUE]
    ELSE LET parent == salespersons[currentParentId]
             row == NewCommission(sale, currentSalespersonId, parent,
                                  CommissionRateOf(parent, currentLevel)) IN
         IF row.commissionAmount < MinCommission
         THEN [rows |-> <<>>, err |-> FALSE]
         ELSE LET rest == CascadeRows(sale, parent.id, parent.parentId, parent.level,
                                      processedLevels + 1) IN
              [rows |-> <<row>> \o rest.rows, err |-> rest.err]

\* UpdateColumn("total_commission", gorm.Expr("total_commission + ?")) per row
RECURSIVE Credit(_, _)
Credit(table, rows) ==
    IF rows = <<>> THEN table
    ELSE Credit(AddTotals(table, Head(rows).agentId, 0, Head(rows).commissionAmount),
                Tail(rows))

\* tx.Create per row: the rows get the next ids of the table
Created(table, rows) ==
    table \o [i \in 1..Len(rows) |-> rows[i] @@ [id |-> Len(table) + i]]

\* ProcessAgentCommission up to the transaction: the seller is read; a
\* seller without a parent ends the call with nil
ProcessAgentCommissionRead(w, saleId, dbOk) ==
    /\ req[w].pc = "idle"
    /\ cascadeBudget > 0
    /\ saleId \in DOMAIN sales
    /\ cascadeBudget' = cascadeBudget - 1
    /\ UNCHANGED <<now, keyTypes, bindings, products, batches, sales, commissions, mintBudget>>
    /\ UNCHANGED processState
    /\ UNCHANGED keyTables
    /\ UNCHANGED agentTables
    /\ LET sale == sales[saleId] IN
       IF ~dbOk \/ sale.salespersonId \notin DOMAIN salespersons
       THEN Respond(w, Response("ProcessAgentCommission", NULL, 500, "seller_query"))
       ELSE IF salespersons[sale.salespersonId].parentId = NULL
       THEN Respond(w, Response("ProcessAgentCommission", NULL, 200, "ok"))
       ELSE /\ req' = [req EXCEPT ![w] =
                   [pc |-> "cascade_tx", sale |-> sale,
                    salesperson |-> salespersons[sale.salespersonId]]]
            /\ UNCHANGED lastResp

\* the transaction: the walk up the parent links, Commit; the deferred
\* Rollback undoes every row and increment when a statement or the commit
\* fails
ProcessAgentCommissionTx(w, fail) ==
    /\ req[w].pc = "cascade_tx"
    /\ UNCHANGED <<now, keyTypes, bindings, products, batches, sales, mintBudget, cascadeBudget>>
    /\ UNCHANGED processState
    /\ UNCHANGED <<lastSalespersonId, invitations, invBudget>>
    /\ UNCHANGED keyTables
    /\ LET salesperson == req[w].salesperson
           walk == CascadeRows(req[w].sale, salesperson.id, salesperson.parentId,
                               salesperson.level, 0)
           commissionsW == Created(commissions, walk.rows)
           salespersonsW == Credit(salespersons, walk.rows) IN
       IF walk.err \/ fail # "none"
       THEN /\ commissions' = Rollback(commissions, commissionsW)
            /\ salespersons' = Rollback(salespersons, salespersonsW)
            /\ Respond(w, Response("ProcessAgentCommission", NULL, 500,
                                   IF walk.err THEN "parent_query" ELSE fail))
       ELSE /\ commissions' = commissionsW
            /\ salespersons' = salespersonsW
            /\ Respond(w, Response("ProcessAgentCommission", NULL, 200, "ok"))

\* ------------------------------------------------ cascade specification
Rates == {DefaultRate, RateOne \div 2}     \* parent_commission_rate of a request body
SaleAmounts == {2, 10, 500}                \* 0.02, 0.10 and 5.00

\* the hierarchy after 1 accepted the invitation of 2 and then 2 that of 3
UnevenHierarchy ==
    (1 :> [NewSalesperson(1) EXCEPT !.parentId = 2, !.level = 1])
 @@ (2 :> [NewSalesperson(2) EXCEPT !.parentId = 3, !.level = 1, !.childrenCount = 1])
 @@ (3 :> [NewSalesperson(3) EXCEPT !.childrenCount = 1])

\* the hierarchy after 1 and 2 accepted each other's invitation at once
CyclicHierarchy ==
    (1 :> [NewSalesperson(1) EXCEPT !.parentId = 2, !.level = 1, !.childrenCount = 1])
 @@ (2 :> [NewSalesperson(2) EXCEPT !.parentId = 1, !.level = 1, !.childrenCount = 1])

\* the full chain and the second root with its child
ChainHierarchy == [s \in ChainIds |-> ChainSalesperson(s)]

\* the same after the second root accepted the invitation of the
\* salesperson at level MaxAgentLevel - 1
DeepHierarchy ==
    [s \in ChainIds |->
        IF s = ChainRoot
        THEN [ChainSalesperson(s) EXCEPT !.parentId = ChainLength - 1, !.level = MaxAgentLevel]
        ELSE IF s = ChainLength - 1
        THEN [ChainSalesperson(s) EXCEPT !.childrenCount = 2]
        ELSE ChainSalesperson(s)]

Hierarchies == {UnevenHierarchy, CyclicHierarchy, ChainHierarchy, DeepHierarchy}

CascadeInit ==
    /\ now = 0
    /\ keys = [k \in KeyIds |-> NewKey(k, KeyTypeHours(k), KeySoftware(k))]
    /\ software = [s \in SoftwareIds |-> [status |-> "active", isActive |-> TRUE]]
    /\ req = [w \in Workers |-> Idle]
    /\ lastResp = Response("none", NULL, 0, "")
    /\ activations = [k \in KeyIds |-> <<>>]
    /\ obj = NewKey(0, 1, 1)
    /\ \E h \in Hierarchies, uplineRate \in [1..MaxRated -> Rates] :
          salespersons = [s \in DOMAIN h |->
              [h[s] EXCEPT !.parentCommissionRate =
                  IF s \in DOMAIN uplineRate THEN uplineRate[s] ELSE DefaultRate]]
    /\ lastSalespersonId = Cardinality(DOMAIN salespersons)
    /\ invitations = [c \in {} |-> NULL]
    /\ invBudget = 0
    /\ keyTypes = [t \in KeyTypeIds |-> NewKeyType(t)]
    /\ bindings = AllBindings
    /\ products = [p \in {} |-> NULL]
    /\ batches = <<>>
    /\ \E seller \in DOMAIN salespersons, saleAmount \in SaleAmounts :
          sales = <<NewSale(1, 1, seller, saleAmount, 0)>>
    /\ commissions = <<>>
    /\ mintBudget = 0
    /\ cascadeBudget = MaxCascades
    /\ codeCounter = 0
    /\ attempts = <<>>

CascadeNext ==
    \/ \E saleId \in DOMAIN sales, dbOk \in BOOLEAN : ProcessAgentCommissionRead(1, saleId, dbOk)
    \/ \E fail \in {"none", "statement", "commit"} : ProcessAgentCommissionTx(1, fail)

CascadeSpec == CascadeInit /\ [][CascadeNext]_vars

\* ==================================================== the stock of keys
\* the values the random part of a code takes
CodeValues == 1..NumCodes

\* generateUniqueCode / generateUniqueKeyCode: the encoded random bytes
BatchCodes == {<<code, keyCode>> : code \in CodeValues, keyCode \in CodeValues}

\* GenerateSalespersonCode / GenerateSalespersonKeyCode: a prefix no code of
\* BatchCreateKeys carries, then the variable part
SalespersonCodes ==
    {<<SalespersonPrefix + code, SalespersonPrefix + keyCode>> :
        code \in CodeValues, keyCode \in CodeValues}

\* the codes of the keys of one mint request
CodeSeqs(space, count) == [1..count -> space]

\* minting, editing the key type and activating the minted keys
StockInit ==
    /\ now = 0
    /\ keys = <<>>
    /\ software = [s \in SoftwareIds |-> [status |-> "active", isActive |-> TRUE]]
    /\ req = [w \in Workers |-> Idle]
    /\ lastResp = Response("none", NULL, 0, "")
    /\ activations = <<>>
    /\ obj = NewKey(0, 1, 1)
    /\ salespersons = (MintParent :> [NewSalesperson(MintParent) EXCEPT !.childrenCount = 1])
                   @@ (MintSeller :> [NewSalesperson(MintSeller) EXCEPT
                                         !.parentId = MintParent, !.level = 1])
    /\ lastSalespersonId = MintSeller
    /\ invitations = (1 :> [NewInvitation(1, MintParent, "a@x.io", "", 0) EXCEPT
                               !.status = "accepted", !.inviteeId = MintSeller,
                               !.acceptedAt = 0])
    /\ invBudget = 0
    /\ keyTypes = [t \in KeyTypeIds |-> NewKeyType(t)]
    /\ bindings = AllBindings
    /\ products = (1 :> NewProduct(1, MintSeller, 1, 1, RateOne \div 5, 0))
    /\ batches = <<>>
    /\ sales = <<>>
    /\ commissions = <<>>
    /\ mintBudget = MaxMints
    /\ cascadeBudget = 0
    /\ codeCounter = 0
    /\ attempts = <<>>

StockNext ==
    \/ \E w \in {1}, count \in {1} :
            GenerateKeysCheck(w, MintSeller, 1, 1, count)
    \/ \E w \in {1}, fail \in {"none", "commit"} :
            GenerateKeysTx(w, fail, FreshCodes(keys, req[w].in.count))
    \/ \E w \in {1}, creatorType \in {"admin", "salesperson"}, count \in {1} :
            BatchCreateKeysCheck(w, MintSeller, creatorType, MintSeller, 1, 1, count)
    \/ \E w \in {1}, fail \in {"none", "commit"} :
            BatchCreateKeysTx(w, fail, TRUE, FreshCodes(keys, req[w].in.count))
    \/ \E updates \in KeyTypeUpdates : UpdateKeyType(1, updates)
    \/ DeactivateKeyType(1)
    \/ \E w \in {1}, k \in DOMAIN keys :
            ActivateKeyLookup(w, keys[k].code, keys[k].keyCode, keys[k].softwareId, "dev", 1)
    \/ \E w \in {1} : ActivateKeySoftware(w)
    \/ \E w \in {1}, dbOk \in BOOLEAN : ActivateKeySave(w, dbOk)
    \/ Tick

StockSpec == StockInit /\ [][StockNext]_vars

\* ---------------------------------------------------------- DeleteKeyType
\* First(&keyType, id)
DeleteKeyTypeFind(w, id) ==
    /\ req[w].pc = "idle"
    /\ UNCHANGED <<now>>
    /\ UNCHANGED processState
    /\ UNCHANGED keyTables
    /\ UNCHANGED agentTables
    /\ UNCHANGED saleTables
    /\ IF id \notin DOMAIN keyTypes
       THEN Respond(w, Response("DeleteKeyType", [id |-> id], 404, "not_found"))
       ELSE /\ req' = [req EXCEPT ![w] = [pc |-> "delete_type_count", id |-> id]]
            /\ UNCHANGED lastResp

\* Model(&models.Key{}).Where("type_id = ?", id).Count(&count)
KeysOfType(id) == {k \in DOMAIN keys : keys[k].typeId = id}

DeleteKeyTypeCount(w, dbOk) ==
    /\ req[w].pc = "delete_type_count"
    /\ UNCHANGED <<now>>
    /\ UNCHANGED processState
    /\ UNCHANGED keyTables
    /\ UNCHANGED agentTables
    /\ UNCHANGED saleTables
    /\ IF ~dbOk
       THEN Respond(w, Response("DeleteKeyType", [id |-> req[w].id], 500, "db_error"))
       ELSE IF Cardinality(KeysOfType(req[w].id)) > 0
       THEN Respond(w, Response("DeleteKeyType", [id |-> req[w].id], 400, "has_keys"))
       ELSE /\ req' = [req EXCEPT ![w].pc = "delete_type_delete"]
            /\ UNCHANGED lastResp

\* Delete(&keyType): the row of that primary key is removed
DeleteKeyTypeDelete(w, dbOk) ==
    /\ req[w].pc = "delete_type_delete"
    /\ UNCHANGED <<now, bindings, products, batches, sales, commissions, cascadeBudget, mintBudget>>
    /\ UNCHANGED processState
    /\ UNCHANGED keyTables
    /\ UNCHANGED agentTables
    /\ IF ~dbOk
       THEN /\ Respond(w, Response("DeleteKeyType", [id |-> req[w].id], 500, "db_error"))
            /\ UNCHANGED keyTypes
       ELSE /\ keyTypes' = [t \in DOMAIN keyTypes \ {req[w].id} |-> keyTypes[t]]
            /\ Respond(w, Response("DeleteKeyType", [id |-> req[w].id], 200, "ok"))

\* key types are deleted while keys are minted
KeyTypeNext ==
    \/ \E w \in Workers, id \in KeyTypeIds : DeleteKeyTypeFind(w, id)
    \/ \E w \in Workers, dbOk \in BOOLEAN : DeleteKeyTypeCount(w, dbOk)
    \/ \E w \in Workers, dbOk \in BOOLEAN : DeleteKeyTypeDelete(w, dbOk)
    \/ \E w \in Workers, count \in {1} :
            GenerateKeysCheck(w, MintSeller, 1, 1, count)
    \/ \E w \in Workers, fail \in {"none", "commit"} :
            GenerateKeysTx(w, fail, FreshCodes(keys, req[w].in.count))
    \/ \E w \in Workers, typeId \in KeyTypeIds, count \in {1} :
            BatchCreateKeysCheck(w, MintParent, "admin", 0, typeId, 1, count)
    \/ \E w \in Workers, fail \in {"none", "commit"} :
            BatchCreateKeysTx(w, fail, TRUE, FreshCodes(keys, req[w].in.count))

KeyTypeSpec == StockInit /\ [][KeyTypeNext]_vars

\* ------------------------------------------------- binding key types
BindNext ==
    \/ \E w \in Workers, softwareId \in SoftwareIds, keyTypeId \in KeyTypeIds,
          creatorId \in 1..2, readOk \in BOOLEAN :
            BindKeyTypeCheck(w, softwareId, keyTypeId, creatorId, readOk)
    \/ \E w \in Workers, dbOk \in BOOLEAN : BindKeyTypeCreate(w, dbOk)
    \/ \E softwareId \in SoftwareIds, keyTypeId \in KeyTypeIds :
            UnbindKeyType(softwareId, keyTypeId)

BindSpec == StockInit /\ [][BindNext]_vars

\* ----------------------------------------------------------- key queries
\* the salesperson id ExportKeys treats as administrator
AdminSalesperson == 1

\* query parameters of a list or export request; 0 and "" stand for a
\* parameter that was not sent
KeyQueries ==
    [status : {"", "used"}, typeId : {0}, softwareId : {0, 1},
     salespersonId : {0, MintParent, MintSeller}, page : {0, 2}, pageSize : {1, 200}]

\* the Where clauses the list handlers add for the parameters that were sent
Filtered(query, softwareId) ==
    {k \in DOMAIN keys :
        /\ softwareId > 0 => keys[k].softwareId = softwareId
        /\ query.status # "" => keys[k].status = query.status
        /\ query.typeId > 0 => keys[k].typeId = query.typeId
        /\ query.salespersonId > 0 => keys[k].salespersonId = query.salespersonId}

\* the defaults and the cap of page and page_size
PageOf(query) == IF query.page <= 0 THEN 1 ELSE query.page
PageSizeOf(query) ==
    IF query.pageSize <= 0 THEN 10
    ELSE IF query.pageSize > 100 THEN 100 ELSE query.pageSize

\* Offset((page - 1) * pageSize).Limit(pageSize).Order("id DESC")
Paged(ids, query) ==
    LET offset == (PageOf(query) - 1) * PageSizeOf(query)
        rank(k) == Cardinality({j \in ids : j > k}) + 1 IN
    {k \in ids : rank(k) > offset /\ rank(k) <= offset + PageSizeOf(query)}

\* the answer of a query: the rows it returns next to the request
Listed(op, caller, query, ids) ==
    Response(op, [caller |-> caller, query |-> query], 200, "ok")
        @@ [rows |-> {keys[k] : k \in ids}]

QueryUnchanged ==
    /\ UNCHANGED <<now>>
    /\ UNCHANGED processState
    /\ UNCHANGED keyTables
    /\ UNCHANGED agentTables
    /\ UNCHANGED saleTables

\* GetAllKeys behind SalespersonAuthMiddleware: caller is the authenticated
\* salesperson, which the handler does not read
GetAllKeys(w, caller, query, dbOk) ==
    /\ req[w].pc = "idle"
    /\ QueryUnchanged
    /\ IF ~dbOk
       THEN Respond(w, Response("GetAllKeys", [caller |-> caller, query |-> query],
                                500, "db_error"))
       ELSE Respond(w, Listed("GetAllKeys", caller, query,
                              Paged(Filtered(query, query.softwareId), query)))

\* GetKeysBySoftwareID: the software id of the path replaces the parameter
GetKeysBySoftwareID(w, caller, softwareId, query, dbOk) ==
    /\ req[w].pc = "idle"
    /\ QueryUnchanged
    /\ LET q == [query EXCEPT !.softwareId = softwareId] IN
       IF softwareId <= 0
       THEN Respond(w, Response("GetKeysBySoftwareID", [caller |-> caller, query |-> q],
                                400, "bad_id"))
       ELSE IF ~dbOk
       THEN Respond(w, Response("GetKeysBySoftwareID", [caller |-> caller, query |-> q],
                                500, "db_error"))
       ELSE Respond(w, Listed("GetKeysBySoftwareID", caller, q,
                              Paged(Filtered(q, softwareId), q)))

\* ExportKeys: the salesperson_id parameter counts only for the
\* administrator; everyone else gets the rows of their own id
ExportScope(caller, query) ==
    IF query.salespersonId > 0 /\ query.salespersonId # caller
    THEN IF caller = AdminSalesperson THEN query.salespersonId ELSE caller
    ELSE caller

ExportKeys(w, caller, query, dbOk) ==
    /\ req[w].pc = "idle"
    /\ QueryUnchanged
    /\ IF ~dbOk
       THEN Respond(w, Response("ExportKeys", [caller |-> caller, query |-> query],
                                500, "db_error"))
       ELSE Respond(w, Listed("ExportKeys", caller, query,
                              Filtered([query EXCEPT
                                           !.salespersonId = ExportScope(caller, query)],
                                       query.softwareId)))

\* keys are minted for either salesperson and queried by either
QueryNext ==
    \/ \E w \in {1}, salespersonId \in {MintParent, MintSeller}, count \in {1} :
            BatchCreateKeysCheck(w, MintParent, "admin", salespersonId, 1, 1, count)
    \/ \E w \in {1} :
            BatchCreateKeysTx(w, "none", TRUE, FreshCodes(keys, req[w].in.count))
    \/ \E w \in {1}, caller \in DOMAIN salespersons, query \in KeyQueries, dbOk \in BOOLEAN :
            GetAllKeys(w, caller, query, dbOk)
    \/ \E w \in {1}, caller \in DOMAIN salespersons, softwareId \in 0..NumSoftware,
          query \in KeyQueries, dbOk \in BOOLEAN :
            GetKeysBySoftwareID(w, caller, softwareId, query, dbOk)
    \/ \E w \in {1}, caller \in DOMAIN salespersons, query \in KeyQueries, dbOk \in BOOLEAN :
            ExportKeys(w, caller, query, dbOk)

QuerySpec == StockInit /\ [][QueryNext]_vars

\* ========================================================== LoginLimiter
\* DefaultLoginLimiter = NewLoginLimiter(5, 15*time.Minute, 1*time.Hour);
\* in this part the clock counts minutes
MaxAttempts == 5
LockMinutes == 15
WaitMinutes == 5
DayMinutes == 24 * 60

Usernames == {"alice", "bob"}

\* the answer of a limiter method
LimiterResult(op, username, locked, minutes) ==
    Response(op, [username |-> username], 0, "")
        @@ [locked |-> locked, minutes |-> minutes]

LimiterUnchanged ==
    /\ UNCHANGED <<req, codeCounter>>
    /\ UNCHANGED keyTables
    /\ UNCHANGED agentTables
    /\ UNCHANGED saleTables

\* the lock set one failure late
AttemptsExhaustedLate(count) == count > MaxAttempts

\* attempt.Count >= l.maxAttempts
AttemptsExhausted(count) == count >= MaxAttempts

\* Count and LockUntil of a username, 0 and the zero time without an entry
FailureCount(table, username) ==
    IF username \in DOMAIN table THEN table[username].count ELSE 0

LockOf(table, username) ==
    IF username \in DOMAIN table THEN table[username].lockUntil ELSE NULL

\* the attempts map after RecordFailedLogin(username) at time t: a missing
\* entry starts at Count 0 with the zero LockUntil
AfterFailedLogin(table, username, t) ==
    LET attempt == IF username \in DOMAIN table
                   THEN table[username]
                   ELSE [count |-> 0, lastTry |-> t, lockUntil |-> NULL]
        count == attempt.count + 1 IN
    [u \in DOMAIN table \cup {username} |->
        IF u = username
        THEN [count |-> count, lastTry |-> t,
              lockUntil |-> IF AttemptsExhausted(count) THEN t + LockMinutes
                            ELSE attempt.lockUntil]
        ELSE table[u]]

\* RecordFailedLogin under l.mutex
RecordFailedLogin(username) ==
    /\ username \in DOMAIN attempts => attempts[username].count < MaxFailures
    /\ attempts' = AfterFailedLogin(attempts, username, now)
    /\ lastResp' = IF AttemptsExhausted(attempts'[username].count)
                   THEN LimiterResult("RecordFailedLogin", username, TRUE, LockMinutes)
                   ELSE LimiterResult("RecordFailedLogin", username, FALSE, 0)
    /\ UNCHANGED now
    /\ LimiterUnchanged

\* now.Before(attempt.LockUntil) for an existing entry
Locked(table, username, t) ==
    username \in DOMAIN table /\ t < table[username].lockUntil

\* GetRemainingAttempts
RemainingAttempts(table, username) ==
    IF username \notin DOMAIN table THEN MaxAttempts
    ELSE IF MaxAttempts - table[username].count < 0 THEN 0
    ELSE MaxAttempts - table[username].count

\* IsLocked under the read lock: now.Before(attempt.LockUntil)
IsLocked(username) ==
    /\ lastResp' =
         IF Locked(attempts, username, now)
         THEN LimiterResult("IsLocked", username, TRUE,
                            (attempts[username].lockUntil - now) + 1)
         ELSE LimiterResult("IsLocked", username, FALSE, 0)
    /\ UNCHANGED <<now, attempts>>
    /\ LimiterUnchanged

\* the entry left in place
ClearedNothing(table, username) == table

\* delete(l.attempts, username)
Cleared(table, username) == [u \in DOMAIN table \ {username} |-> table[u]]

\* ResetAttempts: delete(l.attempts, username)
ResetAttempts(username) ==
    /\ username \in DOMAIN attempts
    /\ attempts' = Cleared(attempts, username)
    /\ UNCHANGED <<now, lastResp>>
    /\ LimiterUnchanged

\* cleanup: entries whose lock is over and whose last try is older than a
\* day are deleted
LimiterCleanup ==
    /\ LET stale == {u \in DOMAIN attempts :
                        now > attempts[u].lockUntil /\ now - attempts[u].lastTry > DayMinutes} IN
       /\ stale # {}
       /\ attempts' = [u \in DOMAIN attempts \ stale |-> attempts[u]]
    /\ UNCHANGED <<now, lastResp>>
    /\ LimiterUnchanged

\* the clock moves on by five minutes, or once by more than a day
LimiterWait ==
    /\ now + WaitMinutes <= MaxLockWaits * WaitMinutes
    /\ now' = now + WaitMinutes
    /\ UNCHANGED <<lastResp, attempts>>
    /\ LimiterUnchanged

LimiterSleep ==
    /\ now <= MaxLockWaits * WaitMinutes
    /\ now' = now + DayMinutes + 1
    /\ UNCHANGED <<lastResp, attempts>>
    /\ LimiterUnchanged

LimiterNext ==
    \/ \E username \in Usernames : RecordFailedLogin(username)
    \/ \E username \in Usernames : IsLocked(username)
    \/ \E username \in Usernames : ResetAttempts(username)
    \/ LimiterCleanup
    \/ LimiterWait
    \/ LimiterSleep

LimiterSpec == StockInit /\ [][LimiterNext]_vars

\* ======================================================= SalespersonLogin
\* what a login request sends
Passwords == {"pw", "bad"}

\* Where("username = ?").First
FindByUsername(username) ==
    {s \in DOMAIN salespersons : salespersons[s].username = username}

LoginUnchanged ==
    /\ UNCHANGED <<now, codeCounter>>
    /\ UNCHANGED keyTables
    /\ UNCHANGED agentTables
    /\ UNCHANGED saleTables

\* SalespersonLogin up to the IsLocked test
SalespersonLoginCheck(w, username, password) ==
    /\ req[w].pc = "idle"
    /\ LoginUnchanged
    /\ UNCHANGED attempts
    /\ LET in == [username |-> username, password |-> password] IN
       IF Locked(attempts, username, now)
       THEN Respond(w, Response("SalespersonLogin", in, 429, "locked"))
       ELSE /\ req' = [req EXCEPT ![w] = [pc |-> "login_verify", in |-> in]]
            /\ UNCHANGED lastResp

\* the account is read and the password verified; a failure goes through
\* handleLoginFailure, which records it, a success of an active account
\* resets the attempts
SalespersonLoginVerify(w, readOk) ==
    /\ req[w].pc = "login_verify"
    /\ LoginUnchanged
    /\ LET in == req[w].in
           found == FindByUsername(in.username)
           salesperson == salespersons[CHOOSE s \in found : TRUE] IN
       IF ~readOk \/ found = {} \/ salesperson.password # in.password
       THEN /\ FailureCount(attempts, in.username) < MaxFailures
            /\ attempts' = AfterFailedLogin(attempts, in.username, now)
            /\ req' = [req EXCEPT ![w].pc =
                          IF AttemptsExhausted(attempts'[in.username].count)
                          THEN "login_locked" ELSE "login_remaining"]
            /\ UNCHANGED lastResp
       ELSE IF salesperson.status # "active"
       THEN /\ Respond(w, Response("SalespersonLogin", in, 403, "disabled"))
            /\ UNCHANGED attempts
       ELSE /\ attempts' = Cleared(attempts, in.username)
            /\ req' = [req EXCEPT ![w].pc = "login_token"]
            /\ UNCHANGED lastResp

\* handleLoginFailure after RecordFailedLogin: the answer of a locked
\* account, or GetRemainingAttempts and the answer with what is left
SalespersonLoginFailure(w) ==
    /\ req[w].pc \in {"login_locked", "login_remaining"}
    /\ LoginUnchanged
    /\ UNCHANGED attempts
    /\ IF req[w].pc = "login_locked"
       THEN Respond(w, Response("SalespersonLogin", req[w].in, 401, "locked")
                       @@ [minutes |-> LockMinutes])
       ELSE Respond(w, Response("SalespersonLogin", req[w].in, 401, "failed")
                       @@ [remaining |-> RemainingAttempts(attempts, req[w].in.username)])

\* the token is generated and stored
SalespersonLoginToken(w, tokenOk) ==
    /\ req[w].pc = "login_token"
    /\ LoginUnchanged
    /\ UNCHANGED attempts
    /\ IF tokenOk
       THEN Respond(w, Response("SalespersonLogin", req[w].in, 200, "ok"))
       ELSE Respond(w, Response("SalespersonLogin", req[w].in, 500, "token"))

\* a clock whose passing also clears the count of every lock that ran out
LoginWaitResetsCount ==
    /\ now < MaxLoginWaits * LockMinutes
    /\ now' = now + LockMinutes
    /\ attempts' = [u \in DOMAIN attempts |->
                       IF attempts[u].lockUntil # NULL /\ now' >= attempts[u].lockUntil
                       THEN [attempts[u] EXCEPT !.count = 0]
                       ELSE attempts[u]]
    /\ UNCHANGED lastResp
    /\ LimiterUnchanged

\* the clock moves on by the duration of a lock
LoginWait ==
    /\ now < MaxLoginWaits * LockMinutes
    /\ now' = now + LockMinutes
    /\ UNCHANGED <<lastResp, attempts>>
    /\ LimiterUnchanged

\* alice has an active account, bob a disabled one
LoginInit ==
    /\ now = 0
    /\ keys = <<>>
    /\ software = [s \in SoftwareIds |-> [status |-> "active", isActive |-> TRUE]]
    /\ req = [w \in Workers |-> Idle]
    /\ lastResp = Response("none", NULL, 0, "")
    /\ activations = <<>>
    /\ obj = NewKey(0, 1, 1)
    /\ salespersons =
          (1 :> (NewSalesperson(1) @@
                    [username |-> "alice", password |-> "pw", status |-> "active"]))
       @@ (2 :> (NewSalesperson(2) @@
                    [username |-> "bob", password |-> "pw", status |-> "disabled"]))
    /\ lastSalespersonId = 2
    /\ invitations = [c \in {} |-> NULL]
    /\ invBudget = 0
    /\ NoSales

LoginNext ==
    \/ \E w \in Workers, username \in Usernames, password \in Passwords :
            SalespersonLoginCheck(w, username, password)
    \/ \E w \in Workers, readOk \in BOOLEAN : SalespersonLoginVerify(w, readOk)
    \/ \E w \in Workers : SalespersonLoginFailure(w)
    \/ \E w \in Workers, tokenOk \in BOOLEAN : SalespersonLoginToken(w, tokenOk)
    \/ LoginWait

LoginSpec == LoginInit /\ [][LoginNext]_vars

\* one login request at a time, with the sweep of the limiter
SoloLoginNext ==
    \/ \E username \in Usernames, password \in Passwords :
            SalespersonLoginCheck(1, username, password)
    \/ \E readOk \in BOOLEAN : SalespersonLoginVerify(1, readOk)
    \/ SalespersonLoginFailure(1)
    \/ \E tokenOk \in BOOLEAN : SalespersonLoginToken(1, tokenOk)
    \/ LoginWait
    \/ LimiterSleep
    \/ LimiterCleanup

SoloLoginSpec == LoginInit /\ [][SoloLoginNext]_vars

\* ------------------------------------------ sales next to an acceptance
\* the seller has no parent yet and holds a pending invitation of MintParent
TotalsInit ==
    /\ now = 0
    /\ keys = <<>>
    /\ software = [s \in SoftwareIds |-> [status |-> "active", isActive |-> TRUE]]
    /\ req = [w \in Workers |-> Idle]
    /\ lastResp = Response("none", NULL, 0, "")
    /\ activations = <<>>
    /\ obj = NewKey(0, 1, 1)
    /\ salespersons = (MintParent :> NewSalesperson(MintParent))
                   @@ (MintSeller :> NewSalesperson(MintSeller))
    /\ lastSalespersonId = MintSeller
    /\ invitations = (1 :> NewInvitation(1, MintParent, "a@x.io", "", 0))
    /\ invBudget = 0
    /\ keyTypes = [t \in KeyTypeIds |-> NewKeyType(t)]
    /\ bindings = AllBindings
    /\ products = (1 :> NewProduct(1, MintSeller, 1, 1, RateOne \div 5, 0))
    /\ batches = <<>>
    /\ sales = <<>>
    /\ commissions = <<>>
    /\ mintBudget = MaxMints
    /\ cascadeBudget = 0
    /\ codeCounter = 0
    /\ attempts = <<>>

\* the seller generates keys while accepting the invitation
TotalsNext ==
    \/ \E w \in Workers, count \in 1..MaxLimit :
            GenerateKeysCheck(w, MintSeller, 1, 1, count)
    \/ \E w \in Workers, fail \in {"none", "totals", "commit"} :
            GenerateKeysTx(w, fail, FreshCodes(keys, req[w].in.count))
    \/ \E w \in Workers, dbOk \in BOOLEAN :
            AcceptAgentInvitationLookup(w, 1, MintSeller, dbOk)
    \/ \E w \in Workers : AcceptAgentInvitationCheck(w, NULL)
    \/ \E w \in Workers, dbOk \in BOOLEAN : AcceptAgentInvitationTx(w, dbOk)

TotalsSpec == TotalsInit /\ [][TotalsNext]_vars

\* ------------------------------------------ one invitation, two accepters
Inviter == 1
Accepters == {2, 3}

\* salesperson Inviter has invited somebody; nobody has a parent
AcceptInit ==
    /\ now = 0
    /\ keys = [k \in KeyIds |-> NewKey(k, KeyTypeHours(k), KeySoftware(k))]
    /\ software = [s \in SoftwareIds |-> [status |-> "active", isActive |-> TRUE]]
    /\ req = [w \in Workers |-> Idle]
    /\ lastResp = Response("none", NULL, 0, "")
    /\ activations = [k \in KeyIds |-> <<>>]
    /\ obj = NewKey(0, 1, 1)
    /\ salespersons = [s \in {Inviter} \cup Accepters |-> NewSalesperson(s)]
    /\ lastSalespersonId = 3
    /\ invitations = (1 :> NewInvitation(1, Inviter, "a@x.io", "", 0))
    /\ invBudget = 0
    /\ NoSales

AcceptNext ==
    \/ \E w \in Workers, salespersonId \in Accepters, dbOk \in BOOLEAN :
            AcceptAgentInvitationLookup(w, 1, salespersonId, dbOk)
    \/ \E w \in Workers, failedId \in Accepters \cup {NULL} :
            AcceptAgentInvitationCheck(w, failedId)
    \/ \E w \in Workers, dbOk \in BOOLEAN : AcceptAgentInvitationTx(w, dbOk)
    \/ TickDays

AcceptSpec == AcceptInit /\ [][AcceptNext]_vars

\* ------------------------------------------- minting under an identity
\* POST /keys/batch behind SalespersonAuthMiddleware: either salesperson
\* is the authenticated caller, and the body names any salesperson
CallerNext ==
    \/ \E w \in Workers, caller \in {MintParent, MintSeller},
          creatorType \in {"admin", "salesperson"},
          salespersonId \in {0, MintParent, MintSeller}, count \in 0..1 :
            BatchCreateKeysCheck(w, caller, creatorType, salespersonId, 1, 1, count)
    \/ \E w \in Workers, fail \in {"none", "totals", "commit"}, readOk \in BOOLEAN :
            BatchCreateKeysTx(w, fail, readOk, FreshCodes(keys, req[w].in.count))

CallerSpec == StockInit /\ [][CallerNext]_vars

\* ------------------------------------------------- the code generator
\* GenerateSalespersonKeyCode / GenerateSalespersonCode up to the counter:
\* the caller obtains the next value of codeCounter
GenerateSalespersonCodeAdd(w) ==
    /\ req[w].pc = "idle"
    /\ codeCounter < MaxCodeCalls
    /\ codeCounter' = NextCounter(codeCounter)
    /\ req' = [req EXCEPT ![w] = [pc |-> "code_random", counter |-> NextCounter(codeCounter)]]
    /\ UNCHANGED <<now, lastResp, attempts>>
    /\ UNCHANGED keyTables
    /\ UNCHANGED agentTables
    /\ UNCHANGED saleTables

\* the random part is drawn and the code is returned
GenerateSalespersonCodeReturn(w, random) ==
    /\ req[w].pc = "code_random"
    /\ Respond(w, Response("GenerateSalespersonCode",
                           [counter |-> req[w].counter, random |-> random], 200, "ok"))
    /\ UNCHANGED <<now, codeCounter, attempts>>
    /\ UNCHANGED keyTables
    /\ UNCHANGED agentTables
    /\ UNCHANGED saleTables

\* concurrent mints with codes that may collide, and concurrent calls of
\* the salesperson code generator
CodeNext ==
    \/ \E w \in Workers, count \in 1..MaxLimit :
            GenerateKeysCheck(w, MintSeller, 1, 1, count)
    \/ \E w \in Workers, count \in 1..MaxLimit :
          \E codes \in CodeSeqs(SalespersonCodes, count) :
            GenerateKeysTx(w, "none", codes)
    \/ \E w \in Workers, count \in 1..MaxLimit :
            BatchCreateKeysCheck(w, MintParent, "admin", 0, 1, 1, count)
    \/ \E w \in Workers, count \in 1..MaxLimit :
          \E codes \in CodeSeqs(BatchCodes, count) :
            BatchCreateKeysTx(w, "none", TRUE, codes)
    \/ \E w \in Workers : GenerateSalespersonCodeAdd(w)
    \/ \E w \in Workers, random \in CodeValues : GenerateSalespersonCodeReturn(w, random)

CodeSpec == StockInit /\ [][CodeNext]_vars

\* ------------------------------------------------------------ properties
Range(seq) == {seq[i] : i \in 1..Len(seq)}

\* C1: for every key at most one ActivateKey request is answered with
\* success (and so at most one request writes the key's activation fields),
\* whatever the interleaving of the requests.
C1_ActivationAtMostOnce ==
    \A k \in KeyIds : Len(activations[k]) <= 1

\* C2: every change of a key's stored status is unused->used, unused->void
\* or used->void; a void key never changes status again.
C2_StatusTransitions ==
    [][\A k \in KeyIds :
          keys'[k].status # keys[k].status =>
              <<keys[k].status, keys'[k].status>> \in
                  {<<"unused", "used">>, <<"unused", "void">>, <<"used", "void">>}]_vars

\* C3: a key whose status is used has activatedAt, usedAt and expiredAt set,
\* and expiredAt = activatedAt + hours; for rows written by the ActivateKey
\* handler and for Key values changed by Key.Activate alike.
UsedKeyStamped(key) ==
    key.status = "used" =>
        /\ key.activatedAt # NULL
        /\ key.usedAt # NULL
        /\ key.expiredAt # NULL
        /\ key.expiredAt = key.activatedAt + key.hours

C3_UsedKeyHasExpiry ==
    /\ \A k \in KeyIds : UsedKeyStamped(keys[k])
    /\ UsedKeyStamped(obj)

RECURSIVE AncestorsFrom(_, _)
AncestorsFrom(id, seen) ==
    IF id \notin DOMAIN salespersons THEN seen
    ELSE LET p == salespersons[id].parentId IN
         IF p = NULL \/ p \in seen THEN seen
         ELSE AncestorsFrom(p, seen \cup {p})

Ancestors(id) == AncestorsFrom(id, {})

\* inviter is the accepter or stands below it in the hierarchy
SelfOrDescendant(inviter, accepter) ==
    inviter = accepter \/ accepter \in Ancestors(inviter)

\* the number of parent links above id, counted up to fuel
RECURSIVE ChainAbove(_, _)
ChainAbove(id, fuel) ==
    IF fuel = 0 \/ id \notin DOMAIN salespersons THEN 0
    ELSE IF salespersons[id].parentId = NULL THEN 0
    ELSE 1 + ChainAbove(salespersons[id].parentId, fuel - 1)

\* C5: the parent relation is acyclic in every reachable state: following
\* parentId from a salesperson never returns to that salesperson, whatever
\* the interleaving of AcceptAgentInvitation requests.
C5_ParentRelationAcyclic ==
    \A s \in DOMAIN salespersons : s \notin Ancestors(s)

\* C6: if the inviter of a pending invitation is the accepter or a direct
\* or indirect descendant of the accepter, AcceptAgentInvitation fails and
\* leaves the accepter's parentId and level, the inviter's childrenCount and
\* the invitation's status unchanged: the step that looks the invitation up
\* writes nothing, and the step that runs the checks ends the request with
\* an error.
C6_DescendantInviterRejected ==
    [][\A w \in Workers :
          /\ \A c \in DOMAIN invitations, salespersonId \in DOMAIN salespersons,
                dbOk \in BOOLEAN :
                (/\ invitations[c].status = "pending"
                 /\ AcceptAgentInvitationLookup(w, invitations[c].inviteCode,
                                                salespersonId, dbOk)
                 /\ SelfOrDescendant(invitations[c].inviterId, salespersonId))
                => /\ salespersons' = salespersons
                   /\ invitations' = invitations
          /\ \A failedId \in DOMAIN salespersons \cup {NULL} :
                (/\ req[w].pc = "accept_check"
                 /\ AcceptAgentInvitationCheck(w, failedId)
                 /\ SelfOrDescendant(req[w].invitation.inviterId,
                                     req[w].in.salespersonId))
                => /\ req'[w] = Idle
                   /\ lastResp'.op = "AcceptAgentInvitation"
                   /\ lastResp'.status # 200
                   /\ salespersons' = salespersons
                   /\ invitations' = invitations]_vars

\* C7: for every salesperson c with a parent p, level(c) = level(p) + 1,
\* after any sequence of accepted invitations, also when the accepter
\* already has children when it gains a parent.
C7_LevelIsParentPlusOne ==
    \A c \in DOMAIN salespersons :
       LET p == salespersons[c].parentId IN
       (p # NULL /\ p \in DOMAIN salespersons)
          => salespersons[c].level = salespersons[p].level + 1

\* C8: no salesperson has more than MaxAgentLevel ancestors along its
\* parent chain, and an AcceptAgentInvitation whose inviter is at level
\* MaxAgentLevel fails without changing any state.
DepthBounded ==
    \A s \in DOMAIN salespersons : ChainAbove(s, MaxAgentLevel + 1) <= MaxAgentLevel

C8_DepthBounded ==
    [][/\ DepthBounded'
       /\ \A w \in Workers, failedId \in DOMAIN salespersons \cup {NULL} :
             (/\ req[w].pc = "accept_check"
              /\ req[w].in.salespersonId \in DOMAIN salespersons
              /\ req[w].invitation.inviterId \in DOMAIN salespersons
              /\ salespersons[req[w].invitation.inviterId].level >= MaxAgentLevel
              /\ AcceptAgentInvitationCheck(w, failedId))
             => /\ req'[w] = Idle
                /\ lastResp'.status # 200
                /\ salespersons' = salespersons
                /\ invitations' = invitations]_vars

\* C9: for every salesperson p the stored childrenCount equals the number
\* of salespersons whose parentId is p.
C9_ChildrenCountExact ==
    \A p \in DOMAIN salespersons :
       salespersons[p].childrenCount = Cardinality(ChildrenOf(p))

\* C10: once a salesperson's parentId is set it never changes, and at most
\* one invitation is ever accepted by the same salesperson.
AcceptedBy(s) ==
    {c \in DOMAIN invitations :
        invitations[c].status = "accepted" /\ invitations[c].inviteeId = s}

C10_OneUplineEver ==
    [][/\ \A s \in DOMAIN salespersons \cap DOMAIN salespersons' :
             salespersons[s].parentId # NULL
                => salespersons'[s].parentId = salespersons[s].parentId
       /\ \A s \in DOMAIN salespersons' : Cardinality(AcceptedBy(s)') <= 1]_vars

\* C11: acceptance is all-or-nothing: in the state in which an
\* AcceptAgentInvitation request ends its transaction, either the accepter's
\* parentId is the inviter, its level is the inviter's level + 1, the
\* inviter's childrenCount is one more than before and the invitation is
\* accepted with inviteeId and acceptedAt, or the request changed none of
\* the rows.
AcceptedAll(w) ==
    LET accepter == req[w].in.salespersonId
        invitation == req[w].invitation
        inviter == invitation.inviterId IN
    /\ {accepter, inviter} \subseteq DOMAIN salespersons'
    /\ inviter \in DOMAIN salespersons
    /\ salespersons'[accepter].parentId = inviter
    /\ salespersons'[accepter].level = salespersons'[inviter].level + 1
    /\ salespersons'[inviter].childrenCount = salespersons[inviter].childrenCount + 1
    /\ invitation.id \in DOMAIN invitations'
    /\ invitations'[invitation.id].status = "accepted"
    /\ invitations'[invitation.id].inviteeId = accepter
    /\ invitations'[invitation.id].acceptedAt = now

C11_AcceptAllOrNothing ==
    [][\A w \in Workers, dbOk \in BOOLEAN :
          (req[w].pc = "accept_tx" /\ AcceptAgentInvitationTx(w, dbOk))
             => \/ AcceptedAll(w)
                \/ UNCHANGED <<salespersons, invitations>>]_vars

\* ------------------------------------------------------ mint properties
\* C12: for every SalespersonProduct with keyGenLimit > 0, keysGenerated
\* never exceeds keyGenLimit, under any interleaving of the mint requests
\* and after any AssignProductToSalesperson update of the limit.
C12_KeysGeneratedWithinLimit ==
    \A p \in DOMAIN products :
       products[p].keyGenLimit > 0 => products[p].keysGenerated <= products[p].keyGenLimit

\* the gate of minting for a request body: active key type, active
\* software, a binding of the two, and a count in [1, MaxBatch]
MintAllowed(in) ==
    /\ in.keyTypeId \in DOMAIN keyTypes
    /\ keyTypes[in.keyTypeId].status = "active" /\ keyTypes[in.keyTypeId].isActive
    /\ in.softwareId \in DOMAIN software
    /\ software[in.softwareId].status = "active" /\ software[in.softwareId].isActive
    /\ Bound(in.softwareId, in.keyTypeId)
    /\ in.count \in 1..MaxBatch

\* C13: no mint path creates a key unless the key type is active, the
\* software is active, a binding exists and the count lies in [1, 1000]:
\* a BatchCreateKeys or GenerateKeysForSalesperson request goes on to its
\* transaction only if the gate holds when it is validated.
C13_MintGate ==
    [][\A w \in Workers :
          (req[w].pc = "idle" /\ req'[w].pc \in {"generate_tx", "batch_tx"})
             => MintAllowed(req'[w].in)]_vars

\* the number of key rows in table that request r inserted
PersistedBy(table, r) ==
    LET rows == {i \in DOMAIN table : table[i].request = r} IN
    IF rows = {} THEN 0
    ELSE IF Cardinality(rows) = 1 THEN table[CHOOSE i \in rows : TRUE].count
    ELSE NULL

\* C14: mint is atomic across the batch: when a mint request for count keys
\* ends, with success or with an error at any insert, the number of keys it
\* persisted is exactly count or exactly 0.
C14_MintAllOrNone ==
    [][\A w \in Workers :
          (req[w].pc \in {"generate_tx", "batch_tx"} /\ req'[w] = Idle)
             => PersistedBy(batches', req[w].request) \in {0, req[w].in.count}]_vars

\* a request for two keys failed at its last insert, after another request
\* had minted, and left no key behind
C14_Witness ==
    /\ lastResp.op = "GenerateKeysForSalesperson"
    /\ lastResp.error = "last_key"
    /\ lastResp.input.count = 2
    /\ Len(batches) = 1
    /\ PersistedBy(batches, 1) = batches[1].count
    /\ PersistedBy(batches, 2) = 0
    /\ mintBudget = 0
    /\ \A w \in Workers : req[w] = Idle

\* the mint request on worker w is made for a salesperson
SalespersonMint(w) ==
    \/ req[w].pc = "generate_tx"
    \/ req[w].pc = "batch_tx" /\ req[w].in.creatorType = "salesperson"

\* all effects of the salesperson mint request on worker w are there: its
\* keys, its sale, the keys_generated increment and the seller's totals
MintedAll(w) ==
    LET in == req[w].in
        seller == in.salespersonId
        saleRows == {i \in DOMAIN sales' : sales'[i].request = req[w].request}
        assigned == FindProduct(seller, in.softwareId, in.keyTypeId, FALSE) IN
    /\ PersistedBy(batches', req[w].request) = in.count
    /\ Cardinality(saleRows) = 1
    /\ \A i \in saleRows :
          /\ seller \in DOMAIN salespersons /\ seller \in DOMAIN salespersons'
          /\ salespersons'[seller].totalSales =
                 salespersons[seller].totalSales + sales'[i].saleAmount
          /\ salespersons'[seller].totalCommission =
                 salespersons[seller].totalCommission + sales'[i].commission
    /\ assigned # {}
    /\ \A p \in assigned :
          products'[p].keysGenerated = products[p].keysGenerated + in.count

\* C15: the keys of a salesperson mint request, its keys_generated
\* increment, its sale and the seller's totalSales / totalCommission
\* increments become visible together or not at all.
C15_MintEffectsTogether ==
    [][\A w \in Workers :
          (SalespersonMint(w) /\ req'[w] = Idle)
             => \/ MintedAll(w)
                \/ UNCHANGED <<batches, products, sales, salespersons>>]_vars

\* C16: whenever a salesperson who has a parent mints keys with success, a
\* sale is created and the commission cascade runs for it: afterwards a
\* SalespersonAgentCommission row of that sale exists for the seller's
\* parent (when the parent's amount is at least 0.01).
C16_MintRunsCascade ==
    [][\A w \in Workers :
          LET seller == req[w].in.salespersonId
              saleAmount == req[w].in.count * req[w].keyType.price IN
          (/\ SalespersonMint(w)
           /\ req'[w] = Idle
           /\ lastResp'.status \in {200, 201}
           /\ seller \in DOMAIN salespersons
           /\ salespersons[seller].parentId \in DOMAIN salespersons
           /\ saleAmount * salespersons[salespersons[seller].parentId].parentCommissionRate
                  >= MinCommission)
             => \E i \in DOMAIN sales' :
                   /\ sales'[i].request = req[w].request
                   /\ \E c \in DOMAIN commissions' :
                         /\ commissions'[c].saleId = sales'[i].id
                         /\ commissions'[c].agentId = salespersons[seller].parentId]_vars


\* a ProcessAgentCommission transaction of worker w that returned nil
CascadeDone(w) ==
    /\ req[w].pc = "cascade_tx"
    /\ req'[w].pc = "idle"
    /\ lastResp'.status = 200

\* the rows a step added to the commission table
RowsAdded == {commissions'[i] : i \in (DOMAIN commissions') \ (DOMAIN commissions)}

\* C17: for a sale of amount M by a salesperson whose direct parent A has
\* parentCommissionRate r, a ProcessAgentCommission that returns nil has
\* recorded for A a row with rate r and amount M * r, when M * r >= 0.01.
C17_DirectParentRate ==
    [][\A w \in Workers :
        CascadeDone(w) /\ req[w].salesperson.parentId \in DOMAIN salespersons =>
            LET A == salespersons[req[w].salesperson.parentId]
                M == req[w].sale.saleAmount
                r == A.parentCommissionRate IN
            M * r >= MinCommission =>
                \E row \in RowsAdded :
                    /\ row.agentId = A.id
                    /\ row.commissionRate = r
                    /\ row.commissionAmount = M * r]_vars

\* the rows a step added for agent a
RowsFor(a) == {row \in RowsAdded : row.agentId = a}

\* C18: a ProcessAgentCommission that returns nil has created at most one
\* row per salesperson, every row pending, and has raised a salesperson's
\* totalCommission by exactly the amount of that salesperson's row (by
\* nothing without a row): nobody gets two rows or two increments for one
\* sale.
C18_OneRowPerAncestor ==
    [][\A w \in Workers :
        CascadeDone(w) =>
            /\ \A row \in RowsAdded : row.status = "pending" /\ row.saleId = req[w].sale.id
            /\ \A a \in DOMAIN salespersons :
                  /\ Cardinality(RowsFor(a)) <= 1
                  /\ \A row \in RowsFor(a) :
                        salespersons'[a].totalCommission =
                            salespersons[a].totalCommission + row.commissionAmount
                  /\ RowsFor(a) = {} =>
                        salespersons'[a].totalCommission = salespersons[a].totalCommission]_vars

\* the salesperson k parent links above s in table (NULL past a root or a
\* missing row)
RECURSIVE Upline(_, _, _)
Upline(table, s, k) ==
    IF k = 0 THEN s
    ELSE LET below == Upline(table, s, k - 1) IN
         IF below \in DOMAIN table THEN table[below].parentId ELSE NULL

\* s and everybody above s
AtOrAbove(table, s) == {Upline(table, s, k) : k \in 0..Cardinality(DOMAIN table)} \ {NULL}

\* the amount the walk computes at hop k above the seller of sale
HopAmount(table, sale, k) ==
    sale.saleAmount * CommissionRateOf(table[Upline(table, sale.salespersonId, k)],
                                       table[Upline(table, sale.salespersonId, k - 1)].level)

\* hop k is the first one whose amount is below the minimum
CutoffAt(table, sale, k) ==
    /\ \A j \in 1..k : Upline(table, sale.salespersonId, j) \in DOMAIN table
    /\ \A j \in 1..(k - 1) : HopAmount(table, sale, j) >= MinCommission
    /\ HopAmount(table, sale, k) < MinCommission

\* C19: when the amount computed for the ancestor at hop k is the first one
\* below 0.01, a ProcessAgentCommission that returns nil has written no row
\* and no totalCommission change for that ancestor and for everybody above
\* it, and has written the rows of the hops below k.
C19_CutoffStopsWalk ==
    [][\A w \in Workers, k \in 1..MaxAgentLevel :
        CascadeDone(w) /\ CutoffAt(salespersons, req[w].sale, k) =>
            /\ \A a \in AtOrAbove(salespersons, Upline(salespersons, req[w].sale.salespersonId, k)) :
                  /\ RowsFor(a) = {}
                  /\ salespersons'[a].totalCommission = salespersons[a].totalCommission
            /\ \A j \in 1..(k - 1) :
                  \E row \in RowsAdded :
                      /\ row.agentId = Upline(salespersons, req[w].sale.salespersonId, j)
                      /\ row.commissionAmount = HopAmount(salespersons, req[w].sale, j)]_vars

\* a call of ProcessAgentCommission by worker w for a seller without parent
NoParentCall(w) ==
    /\ req[w].pc = "idle"
    /\ cascadeBudget' = cascadeBudget - 1
    /\ \E saleId \in DOMAIN sales :
          /\ sales[saleId].salespersonId \in DOMAIN salespersons
          /\ salespersons[sales[saleId].salespersonId].parentId = NULL

\* C20: a ProcessAgentCommission that returns nil has created at most
\* MaxAgentLevel rows, the i-th of them for the salesperson i parent links
\* above the seller, and has changed the totalCommission of those
\* salespersons only; for a seller without parent the call opens no
\* transaction, writes nothing and returns nil unless reading the seller
\* failed.
C20_OnlyParentChain ==
    [][\A w \in Workers :
        /\ CascadeDone(w) =>
              LET seller == req[w].sale.salespersonId
                  added == Len(commissions') - Len(commissions) IN
              /\ added <= MaxAgentLevel
              /\ \A i \in 1..added :
                    /\ commissions'[Len(commissions) + i].agentId = Upline(salespersons, seller, i)
                    /\ commissions'[Len(commissions) + i].salespersonId =
                           Upline(salespersons, seller, i - 1)
              /\ \A a \in DOMAIN salespersons :
                    salespersons'[a].totalCommission # salespersons[a].totalCommission =>
                        \E i \in 1..added : a = Upline(salespersons, seller, i)
        /\ NoParentCall(w) =>
              /\ req'[w].pc = "idle"
              /\ commissions' = commissions
              /\ salespersons' = salespersons
              /\ lastResp'.status = 200 \/ lastResp'.error = "seller_query"]_vars

\* the walk stopped after MaxAgentLevel rows although the seller has more
\* than MaxAgentLevel distinct ancestors
C20_Witness ==
    /\ lastResp.op = "ProcessAgentCommission"
    /\ lastResp.status = 200
    /\ Len(commissions) = MaxAgentLevel
    /\ Cardinality(AtOrAbove(salespersons, sales[1].salespersonId)) > MaxAgentLevel + 1

\* a ProcessAgentCommission transaction of worker w that returned an error
CascadeFailed(w) ==
    /\ req[w].pc = "cascade_tx"
    /\ req'[w].pc = "idle"
    /\ lastResp'.status # 200

\* C21: a ProcessAgentCommission whose transaction fails at any statement
\* or at the commit returns the error and leaves the commission rows, every
\* salesperson's totalCommission and the sale record as they were before
\* the call.
C21_CascadeAllOrNothing ==
    [][\A w \in Workers :
        CascadeFailed(w) =>
            /\ lastResp'.status = 500
            /\ commissions' = commissions
            /\ \A a \in DOMAIN salespersons :
                  /\ a \in DOMAIN salespersons'
                  /\ salespersons'[a].totalCommission = salespersons[a].totalCommission
            /\ sales' = sales]_vars

\* a failed cascade whose walk had rows to write
C21_Witness ==
    /\ lastResp.op = "ProcessAgentCommission"
    /\ lastResp.status = 500
    /\ lastResp.error \in {"statement", "commit"}
    /\ commissions = <<>>
    /\ LET seller == salespersons[sales[1].salespersonId] IN
       Len(CascadeRows(sales[1], seller.id, seller.parentId, seller.level, 0).rows) >= 2

\* a mint transaction of worker w that committed
MintCommitted(w) ==
    /\ req[w].pc \in {"generate_tx", "batch_tx"}
    /\ req'[w].pc = "idle"
    /\ lastResp'.status \in {200, 201}

\* C22: the keys a committed mint adds carry the name, hours and price of
\* the key type as the request read it and status unused; no step changes
\* the typeName, hours or price of a key that exists, whatever happens to
\* its key type; a successful activation sets expiredAt to the time of the
\* activation plus the hours stored on the key.
C22_KeyKeepsTypeSnapshot ==
    [][/\ \A w \in Workers :
            MintCommitted(w) =>
                \A k \in (DOMAIN keys') \ (DOMAIN keys) :
                    /\ keys'[k].typeName = req[w].keyType.name
                    /\ keys'[k].hours = req[w].keyType.hours
                    /\ keys'[k].price = req[w].keyType.price
                    /\ keys'[k].status = "unused"
       /\ \A k \in DOMAIN keys :
            /\ k \in DOMAIN keys'
            /\ keys'[k].typeName = keys[k].typeName
            /\ keys'[k].hours = keys[k].hours
            /\ keys'[k].price = keys[k].price
       /\ \A w \in Workers :
            req[w].pc = "activate_save" /\ lastResp'.status = 200 /\ req'[w].pc = "idle" =>
                keys'[req[w].key.id].expiredAt = now + keys[req[w].key.id].hours]_vars

\* a key was activated after its key type's hours had been edited
C22_Witness ==
    \E k \in DOMAIN keys :
        /\ keys[k].status = "used"
        /\ keyTypes[keys[k].typeId].hours # keys[k].hours
        /\ keys[k].activatedAt > 0
        /\ keys[k].expiredAt = keys[k].activatedAt + keys[k].hours

\* the counter values that generator calls in progress hold
HeldCounters(r) == {r[w].counter : w \in {v \in Workers : r[v].pc = "code_random"}}

\* C23: no two rows of keys share a code and no two share a key_code,
\* whichever handler minted them and however the mints interleave; a call
\* of the salesperson code generator obtains a counter value larger than
\* every value obtained before, so no two calls hold the same value.
C23_CodesUnique ==
    [][/\ \A k1, k2 \in DOMAIN keys' :
            k1 # k2 => /\ keys'[k1].code # keys'[k2].code
                       /\ keys'[k1].keyCode # keys'[k2].keyCode
       /\ \A w \in Workers :
            req[w].pc = "idle" /\ req'[w].pc = "code_random" =>
                /\ req'[w].counter > codeCounter
                /\ \A v \in HeldCounters(req) : req'[w].counter > v
       /\ \A v \in HeldCounters(req') : v <= codeCounter'
       /\ \A w1, w2 \in Workers :
            w1 # w2 /\ req'[w1].pc = "code_random" /\ req'[w2].pc = "code_random" =>
                req'[w1].counter # req'[w2].counter]_vars

\* the mint request that started first was refused by a unique index after
\* the request that started second had committed its keys
C23_Witness ==
    /\ lastResp.error = "duplicate"
    /\ Len(batches) = 1
    /\ batches[1].request = 2
    /\ DOMAIN keys # {}

\* C24: an AcceptAgentInvitation call that finds a pending invitation whose
\* expiry has passed ends with an error, leaves the invitation with status
\* expired and changes no salesperson; an invitation that has status
\* expired is never accepted afterwards.
C24_ExpiredInvitationRejected ==
    [][/\ \A w \in Workers :
            req[w].pc = "idle" /\ lastResp'.op = "AcceptAgentInvitation"
            /\ lastResp'.error = "expired" /\ lastResp' # lastResp =>
                /\ lastResp'.status = 400
                /\ salespersons' = salespersons
                /\ \A c \in DOMAIN invitations :
                      invitations[c].status = "pending" /\ now > invitations[c].expiredAt
                      /\ invitations'[c] # invitations[c] =>
                          invitations'[c].status = "expired"
                /\ \E c \in DOMAIN invitations :
                      /\ invitations[c].status = "pending"
                      /\ now > invitations[c].expiredAt
                      /\ invitations'[c].status = "expired"
       /\ \A c \in DOMAIN invitations :
            invitations[c].status = "expired" =>
                c \in DOMAIN invitations' /\ invitations'[c].status # "accepted"]_vars

\* invitation inv is pending for the email or the phone of a request
PendingFor(inv, email, phone) ==
    /\ inv.status = "pending"
    /\ \/ email # "" /\ inv.email = email
       \/ phone # "" /\ inv.phone = phone

\* C25: a CreateAgentInvitation request for an email or phone that already
\* has a pending invitation is answered with an error and creates nothing;
\* a request that succeeds adds one pending invitation that expires 7 days
\* after its creation; at no time do two pending invitations carry the same
\* email or the same phone.
C25_OnePendingPerContact ==
    [][/\ \A w \in Workers :
            req[w].pc = "idle" /\ req'[w].pc = "invite_insert" =>
                \A c \in DOMAIN invitations :
                    ~PendingFor(invitations[c], req'[w].in.email, req'[w].in.phone)
       /\ \A w \in Workers :
            req[w].pc = "invite_insert" /\ req'[w].pc = "idle" /\ lastResp'.status = 201 =>
                \E c \in (DOMAIN invitations') \ (DOMAIN invitations) :
                    /\ (DOMAIN invitations') \ (DOMAIN invitations) = {c}
                    /\ invitations'[c].status = "pending"
                    /\ invitations'[c].email = req[w].in.email
                    /\ invitations'[c].phone = req[w].in.phone
                    /\ invitations'[c].expiredAt = now + 24 * InvitationDays
       /\ \A c1, c2 \in DOMAIN invitations' :
            c1 # c2 /\ invitations'[c1].status = "pending" /\ invitations'[c2].status = "pending" =>
                /\ invitations'[c1].email = "" \/ invitations'[c1].email # invitations'[c2].email
                /\ invitations'[c1].phone = "" \/ invitations'[c1].phone # invitations'[c2].phone]_vars

\* C26: a GenerateAgentCode call that answers with a code leaves exactly
\* that code stored for the salesperson, and a stored non-empty agentCode
\* never changes, so every caller holds the code that stays stored.
C26_AgentCodeIdempotent ==
    [][/\ \A w \in Workers :
            /\ req'[w].pc = "idle"
            /\ lastResp' # lastResp
            /\ lastResp'.op = "GenerateAgentCode"
            /\ lastResp'.status = 200
            => salespersons'[lastResp'.input.id].agentCode = lastResp'.input.agentCode
       /\ \A s \in DOMAIN salespersons :
            salespersons[s].agentCode # "" =>
                s \in DOMAIN salespersons' /\ salespersons'[s].agentCode = salespersons[s].agentCode]_vars

\* C27: every key's typeId names a row of key_types: a key type that has
\* keys is never deleted, also when DeleteKeyType runs next to a mint.
C27_KeyTypeOfKeyExists ==
    \A k \in DOMAIN keys : keys[k].typeId \in DOMAIN keyTypes

\* C28: software_key_types holds at most one row per pair of software and
\* key type, also when two BindKeyType requests run at the same time.
C28_OneBindingPerPair ==
    \A i, j \in DOMAIN bindings :
        /\ bindings[i].softwareId = bindings[j].softwareId
        /\ bindings[i].keyTypeId = bindings[j].keyTypeId
        => i = j

\* C29: every key row that GetAllKeys, GetKeysBySoftwareID or ExportKeys
\* returns to a salesperson who is not the administrator carries that
\* salesperson's id in salespersonId, whatever parameters were sent.
C29_QueriesOwnershipScoped ==
    /\ lastResp.op \in {"GetAllKeys", "GetKeysBySoftwareID", "ExportKeys"}
    /\ lastResp.status = 200
    /\ lastResp.input.caller # AdminSalesperson
    => \A row \in lastResp.rows : row.salespersonId = lastResp.input.caller

\* C30: a RecordFailedLogin call raises the count of its username by
\* exactly one; below maxAttempts it answers not locked and leaves lockUntil
\* alone, from maxAttempts on it sets lockUntil = now + lockDuration and
\* answers locked; IsLocked answers locked exactly when the username has an
\* entry and now < lockUntil.
C30_LimiterLocksAtMaxAttempts ==
    [][/\ \A u \in Usernames :
            u \in DOMAIN attempts' /\ LockOf(attempts', u) # NULL
            => FailureCount(attempts', u) >= MaxAttempts
       /\ \A u \in Usernames :
            /\ u \in DOMAIN attempts'
            /\ u \notin DOMAIN attempts \/ attempts'[u] # attempts[u]
            => /\ FailureCount(attempts', u) = FailureCount(attempts, u) + 1
               /\ lastResp'.op = "RecordFailedLogin"
               /\ lastResp'.input.username = u
               /\ IF FailureCount(attempts', u) < MaxAttempts
                  THEN /\ ~lastResp'.locked
                       /\ LockOf(attempts', u) = LockOf(attempts, u)
                  ELSE /\ lastResp'.locked
                       /\ LockOf(attempts', u) = now + LockMinutes
       /\ lastResp' # lastResp /\ lastResp'.op = "IsLocked"
            => LET u == lastResp'.input.username IN
               lastResp'.locked <=> (u \in DOMAIN attempts /\ now < LockOf(attempts, u))]_vars

\* bob was locked by the fifth failure, the lock ran out, and IsLocked
\* answered not locked
C30_Witness ==
    /\ lastResp.op = "IsLocked"
    /\ lastResp.input.username = "bob"
    /\ ~lastResp.locked
    /\ "bob" \in DOMAIN attempts
    /\ attempts["bob"].count = MaxAttempts
    /\ attempts["bob"].lockUntil = LockMinutes
    /\ now = MaxLockWaits * WaitMinutes

\* worker w passes the password verification of an active account
LoginSucceeds(w) == req[w].pc = "login_verify" /\ req'[w].pc = "login_token"

\* C31: when a SalespersonLogin authenticates, the username is left not
\* locked and with all maxAttempts remaining, however many failures were
\* recorded before.
C31_SuccessClearsLimiter ==
    [][\A w \in Workers :
          LoginSucceeds(w) =>
              /\ ~Locked(attempts', req[w].in.username, now')
              /\ RemainingAttempts(attempts', req[w].in.username) = MaxAttempts]_vars

\* alice was locked out by a fifth failure, and a login of hers has
\* authenticated since
C31_Witness ==
    /\ lastResp.op = "SalespersonLogin"
    /\ lastResp.status = 401
    /\ lastResp.error = "locked"
    /\ lastResp.input.username = "alice"
    /\ "alice" \notin DOMAIN attempts
    /\ \E w \in Workers :
          /\ req[w].pc = "login_token"
          /\ req[w].in.username = "alice"
          /\ \A v \in Workers \ {w} : req[v].pc = "idle"

\* sum of saleAmount over the first n sales of salesperson s
RECURSIVE SaleSum(_, _)
SaleSum(s, n) ==
    IF n = 0 THEN 0
    ELSE SaleSum(s, n - 1) + (IF sales[n].salespersonId = s THEN sales[n].saleAmount ELSE 0)

\* C32: the stored totalSales of every salesperson equals the sum of the
\* saleAmount of its sale records, also when a key generation of the
\* salesperson runs next to its acceptance of an invitation.
C32_TotalSalesIsSumOfSales ==
    \A s \in DOMAIN salespersons : salespersons[s].totalSales = SaleSum(s, Len(sales))

\* along the parent chain of s every level is the parent's level plus one
LevelsConsistentAbove(table, s) ==
    \A k \in 0..Cardinality(DOMAIN table) :
        LET child == Upline(table, s, k)
            parent == Upline(table, s, k + 1) IN
        child \in DOMAIN table /\ parent \in DOMAIN table =>
            table[child].level = table[parent].level + 1

C34_RateNeverAmplified ==
    [][\A w \in Workers :
        CascadeDone(w) =>
            \A row \in RowsAdded :
                row.commissionRate <= salespersons[row.agentId].parentCommissionRate]_vars

\* C35: the one invitation of Inviter gives at most one salesperson its
\* parent and raises the inviter's childrenCount by at most 1, whatever
\* the interleaving of the AcceptAgentInvitation requests that carry it.
C35_InvitationAcceptedOnce ==
    /\ Cardinality({s \in DOMAIN salespersons : salespersons[s].parentId = Inviter}) <= 1
    /\ salespersons[Inviter].childrenCount <= 1

\* worker w verifies a password, fails, and the failure is recorded
VerificationFails(w) ==
    /\ req[w].pc = "login_verify"
    /\ req'[w].pc \in {"login_locked", "login_remaining"}

\* C36: once maxAttempts failures have locked a username, no SalespersonLogin
\* request verifies a password for it while the lock lasts: a failed
\* verification is never performed for a username that is locked, so a lock
\* is preceded by at most maxAttempts of them.
C36_NoVerificationWhileLocked ==
    [][\A w \in Workers :
          VerificationFails(w) => ~Locked(attempts, req[w].in.username, now)]_vars

\* C37: a lock that runs out leaves the failure count where it was, at or
\* above maxAttempts, as long as the entry is neither reset nor swept; the
\* next failed login then locks the username again until now + lockDuration.
C37_ExpiryKeepsCount ==
    [][/\ \A u \in Usernames :
            /\ Locked(attempts, u, now)
            /\ ~Locked(attempts', u, now')
            /\ u \in DOMAIN attempts'
            => /\ FailureCount(attempts', u) = FailureCount(attempts, u)
               /\ FailureCount(attempts', u) >= MaxAttempts
       /\ \A w \in Workers :
            /\ VerificationFails(w)
            /\ FailureCount(attempts, req[w].in.username) >= MaxAttempts
            /\ ~Locked(attempts, req[w].in.username, now)
            => /\ req'[w].pc = "login_locked"
               /\ LockOf(attempts', req[w].in.username) = now + LockMinutes
               /\ Locked(attempts', req[w].in.username, now')]_vars

\* alice was locked by her fifth failure, the lock ran out, and her sixth
\* failure has locked her again
C37_Witness ==
    /\ "alice" \in DOMAIN attempts
    /\ attempts["alice"].count = MaxAttempts + 1
    /\ attempts["alice"].lastTry = now
    /\ attempts["alice"].lockUntil = now + LockMinutes
    /\ req[1].pc = "login_locked"
    /\ req[1].in.username = "alice"

\* a worker's BatchCreateKeys transaction of creator type salesperson
\* commits in this step
SalespersonMintCommits(w) ==
    /\ req[w].pc = "batch_tx"
    /\ req[w].in.creatorType = "salesperson"
    /\ req'[w].pc = "idle"
    /\ lastResp'.status = 200

\* the salespersons this step charges: whose totals change, whose
\* assignment's keysGenerated changes, and whose id is on a new key or sale
ChargedByStep ==
    {s \in DOMAIN salespersons : salespersons'[s] # salespersons[s]}
    \cup {products[p].salespersonId : p \in {q \in DOMAIN products :
              products'[q].keysGenerated # products[q].keysGenerated}}
    \cup {sales'[i].salespersonId : i \in (Len(sales) + 1)..Len(sales')}
    \cup {keys'[k].salespersonId : k \in DOMAIN keys' \ DOMAIN keys}

\* C38: a salesperson-type BatchCreateKeys charges only the authenticated
\* caller: the salesperson whose keysGenerated, totalSales and
\* totalCommission change and whose id is stored on the keys and the sale
\* is the identity set by the middleware, whatever the body's salesperson_id
C38_MintChargesCaller ==
    [][\A w \in Workers :
          SalespersonMintCommits(w) => ChargedByStep \subseteq {req[w].caller}]_vars

\* C39: every non-null parentId refers to an existing salesperson after
\* any sequence of CreateSalesperson, DeleteSalesperson and
\* AcceptAgentInvitation, so no ancestor row is missing in the walk.
C39_NoDanglingUpline ==
    \A s \in DOMAIN salespersons :
        salespersons[s].parentId # NULL =>
            salespersons[s].parentId \in DOMAIN salespersons

\* C40: CreateAgentInvitation answers "duplicate" only when some existing
\* invitation is pending and shares the email or the phone of the request;
\* accepted, rejected and expired invitations and pending invitations for
\* another contact never block it, for email-only, phone-only and
\* email+phone requests alike.
C40_DuplicateOnlyForPendingContact ==
    [][\A w \in Workers, inviterId \in 1..NumRacers, email \in Emails, phone \in Phones :
          /\ CreateAgentInvitationCheck(w, inviterId, email, phone)
          /\ lastResp'.op = "CreateAgentInvitation"
          /\ lastResp'.status = 409
          => \E c \in DOMAIN invitations : PendingFor(invitations[c], email, phone)]_vars

====
